---------------------------- MODULE Spec2Model ----------------------------
(***************************************************************************)
(* github-metrics: the durable result cache (SQLiteCache, the              *)
(* CompatibilityCache mirror in front of it) and the fetch orchestration   *)
(* of generateReport that reads and writes it.                             *)
(*                                                                         *)
(* The specifications share the variables:                                 *)
(*   SpecStore   the SQLiteCache API called directly on one table, with a  *)
(*               clock (set / get / delete / clear / cleanup);             *)
(*   SpecTables  the same API on the five tables side by side;             *)
(*   Spec        a process running generateReport over a small universe    *)
(*               of repositories, intervals, pull requests and issues;     *)
(*   SpecCalls   the helpers of the fetchers, called on their own;         *)
(*   SpecRetry   one call of retryWithBackoff;                             *)
(*   SpecAggregate one call of aggregateMetricsByDateRange;                *)
(*   SpecKeys    the cache keys the fetchers build;                        *)
(*   SpecAgain   one interval requested several times in a row;            *)
(*   SpecServe   one server process running generateReport per request;    *)
(*   SpecCommits one call of fetchCommitsInDateRange;                      *)
(*   SpecLoops   the page loop of one PR interval or of fetchCommits       *)
(*               (SpecLoopsFair adds weak fairness of its steps);          *)
(*   SpecMigrate migrateSingleFile run repeatedly over one legacy file.    *)
(***************************************************************************)
EXTENDS Integers, Sequences, FiniteSets, TLC

VARIABLES
    now,        \* wall clock, seconds since the epoch (Date.now() / 1000)
    db,         \* the SQLite file: table name -> (key -> row)
    ret,        \* SpecStore: the last API call and what its promise settled to
    lastSet,    \* SpecStore: per key, the last successful write not yet removed
    flags,      \* USE_OFFLINE_MODE, FORCE_REFRESH_MODE, SKIP_COMMITS of the process
    mem,        \* CompatibilityCache.memoryCache of each table
    closed,     \* how often close() was called on the handle of each table
    pc,         \* position of generateReport
    cur,        \* the fetch unit in progress: index, step, page, records so far
    work,       \* what the fetch functions have returned to generateReport so far
    errorStats, \* index.ts errorStats: skippedPRs, cachedFallbackPRs
    prior,      \* what earlier process runs left in the SQLite file
    last        \* the step generateReport finished last, and how it ended

vars == <<now, db, ret, lastSet, flags, mem, closed, pc, cur, work, errorStats,
          prior, last>>

fetchVars == <<flags, mem, closed, pc, cur, work, errorStats, prior, last>>

-----------------------------------------------------------------------------
(* Bounds of the model *)

\* clock ticks the model lets pass
MaxTicks == 5

-----------------------------------------------------------------------------
(* Time and its two text renderings *)

SecondsPerDay == 24 * 60 * 60
ClockStep == 6 * 60 * 60
MaxTime == MaxTicks * ClockStep

\* 'T', the separator Date.prototype.toISOString puts between date and time
CharT == 84
\* ' ', the separator SQLite's datetime('now') puts between date and time
CharSpace == 32
\* 'Z', the zone suffix of toISOString
CharZ == 90

\* new Date(ms).toISOString(): "YYYY-MM-DDTHH:MM:SS.mmmZ".  The fixed-width
\* date and time fields are kept as numbers (their text order is their
\* numeric order); the separator and the suffix are kept as characters.
ToISOString(t) == <<t \div SecondsPerDay, CharT, t % SecondsPerDay, 0, CharZ>>

\* SQLite datetime('now'): "YYYY-MM-DD HH:MM:SS", UTC, whole seconds.
DatetimeNow(t) == <<t \div SecondsPerDay, CharSpace, t % SecondsPerDay>>

\* SQL NULL in a text column
SqlNull == <<>>

RECURSIVE TextLess(_, _)
\* SQLite compares two TEXT values bytewise (BINARY collation): the first
\* differing position decides, and a proper prefix is the smaller.
TextLess(a, b) ==
    IF b = <<>> THEN FALSE
    ELSE IF a = <<>> THEN TRUE
    ELSE IF Head(a) # Head(b) THEN Head(a) < Head(b)
    ELSE TextLess(Tail(a), Tail(b))

TextGreater(a, b) == TextLess(b, a)
TextLessEq(a, b) == ~TextLess(b, a)

-----------------------------------------------------------------------------
(* JavaScript values held in the caches, and JSON *)

JUndefined == [kind |-> "undefined", xs |-> <<>>]
JNull      == [kind |-> "null", xs |-> <<>>]
JNum(n)    == [kind |-> "num", xs |-> <<n>>]
JArr(s)    == [kind |-> "arr", xs |-> s]
\* {reviews: [...], reviewThreads: [...]} of fetchReviewsForPR, threads left out
JObj(s)    == [kind |-> "obj", xs |-> s]

\* if (value) ... in JavaScript: arrays and objects are truthy even when
\* empty; undefined, null and 0 are not.
Truthy(v) ==
    CASE v.kind = "undefined" -> FALSE
      [] v.kind = "null" -> FALSE
      [] v.kind = "num" -> v.xs[1] # 0
      [] OTHER -> TRUE

DigitText == [n \in 0..9 |-> <<"0", "1", "2", "3", "4", "5", "6", "7", "8", "9">>[n + 1]]

RECURSIVE JoinNums(_)
JoinNums(s) ==
    IF s = <<>> THEN <<>>
    ELSE IF Len(s) = 1 THEN <<DigitText[s[1]]>>
    ELSE <<DigitText[s[1]], ",">> \o JoinNums(Tail(s))

\* JSON.stringify(value): the text stored in the value column
JSONStringify(v) ==
    CASE v.kind = "null" -> <<"null">>
      [] v.kind = "num" -> <<DigitText[v.xs[1]]>>
      [] v.kind = "arr" -> <<"[">> \o JoinNums(v.xs) \o <<"]">>
      [] v.kind = "obj" -> <<"{", "reviews", ":", "[">> \o JoinNums(v.xs) \o <<"]", "}">>

DigitOf(c) == CHOOSE n \in 0..9 : DigitText[n] = c
IsDigit(c) == \E n \in 0..9 : DigitText[n] = c

RECURSIVE SplitNums(_)
\* the numbers of "1,2,3"; <<-1>> marks text that is no number list
SplitNums(s) ==
    IF s = <<>> THEN <<>>
    ELSE IF ~IsDigit(s[1]) THEN <<-1>>
    ELSE IF Len(s) = 1 THEN <<DigitOf(s[1])>>
    ELSE IF s[2] # "," \/ Len(s) = 2 THEN <<-1>>
    ELSE <<DigitOf(s[1])>> \o SplitNums(SubSeq(s, 3, Len(s)))

WellFormedNums(s) == \A i \in 1..Len(s) : s[i] >= 0

\* JSON.parse(text); ParseError stands for the SyntaxError it throws
ParseError == [kind |-> "syntax-error", xs |-> <<>>]
JSONParse(s) ==
    IF s = <<"null">> THEN JNull
    ELSE IF Len(s) = 1 /\ IsDigit(s[1]) THEN JNum(DigitOf(s[1]))
    ELSE IF Len(s) >= 2 /\ s[1] = "[" /\ s[Len(s)] = "]"
        THEN LET ns == SplitNums(SubSeq(s, 2, Len(s) - 1))
             IN IF WellFormedNums(ns) THEN JArr(ns) ELSE ParseError
    ELSE IF Len(s) >= 6 /\ SubSeq(s, 1, 4) = <<"{", "reviews", ":", "[">>
             /\ SubSeq(s, Len(s) - 1, Len(s)) = <<"]", "}">>
        THEN LET ns == SplitNums(SubSeq(s, 5, Len(s) - 2))
             IN IF WellFormedNums(ns) THEN JObj(ns) ELSE ParseError
    ELSE ParseError

-----------------------------------------------------------------------------
(* SQLiteCache: one table is a function from the keys present to rows *)

\* a settled promise
Resolved(v) == [ok |-> TRUE, val |-> v]
Rejected == [ok |-> FALSE, val |-> JUndefined]

\* ttlSeconds left out of the call
TtlOmitted == 0 - 1

\* a set that took ttlSeconds = 0 for a time to live instead of "never"
ExpiresAt_ZeroIsTtl(ttl, t) ==
    IF ttl # TtlOmitted THEN ToISOString(t + ttl) ELSE SqlNull

\* const expiresAt = ttlSeconds ? new Date(Date.now() + ttlSeconds * 1000).toISOString() : null
ExpiresAt(ttl, t) ==
    IF ttl # TtlOmitted /\ ttl # 0 THEN ToISOString(t + ttl) ELSE SqlNull

\* WHERE key = ? AND (expires_at IS NULL OR expires_at > datetime('now'))
RowVisible(table, key, t) ==
    /\ key \in DOMAIN table
    /\ \/ table[key].expires_at = SqlNull
       \/ TextGreater(table[key].expires_at, DatetimeNow(t))

\* SQLiteCache.get: the promise it returns.  err: the engine reports an error.
SQLiteGet(table, key, t, err) ==
    IF err THEN Rejected
    ELSE IF RowVisible(table, key, t)
        THEN LET v == JSONParse(table[key].value)
             IN IF v = ParseError THEN Resolved(JUndefined) ELSE Resolved(v)
    ELSE Resolved(JUndefined)

\* the row INSERT OR REPLACE writes; its created_at column, datetime('now'), is
\* read by nothing in the repository and is left out of the row
NewRow(value, ttl, t) ==
    [value |-> JSONStringify(value), expires_at |-> ExpiresAt(ttl, t)]

\* a set written as INSERT OR IGNORE: an existing row is kept
SQLiteSet_InsertOrIgnore(table, key, value, ttl, t, err) ==
    IF err \/ key \in DOMAIN table THEN table
    ELSE [k \in DOMAIN table \cup {key} |->
             IF k = key THEN NewRow(value, ttl, t) ELSE table[k]]

\* a set written as UPDATE ... SET value: an existing row keeps its expiry
SQLiteSet_KeepExpiry(table, key, value, ttl, t, err) ==
    IF err THEN table
    ELSE [k \in DOMAIN table \cup {key} |->
             IF k # key THEN table[k]
             ELSE IF key \in DOMAIN table
                 THEN [value |-> JSONStringify(value), expires_at |-> table[key].expires_at]
             ELSE NewRow(value, ttl, t)]

\* SQLiteCache.set: the table after INSERT OR REPLACE (unchanged on error)
SQLiteSet(table, key, value, ttl, t, err) ==
    IF err THEN table
    ELSE [k \in DOMAIN table \cup {key} |->
             IF k = key THEN NewRow(value, ttl, t) ELSE table[k]]

\* SQLiteCache.delete: DELETE FROM t WHERE key = ?
SQLiteDelete(table, key, err) ==
    IF err THEN table
    ELSE [k \in DOMAIN table \ {key} |-> table[k]]

\* SQLiteCache.clear: DELETE FROM t
SQLiteClear(table, err) ==
    IF err THEN table ELSE [k \in {} |-> 0]

\* WHERE expires_at IS NOT NULL AND expires_at <= datetime('now')
RowSwept(row, t) ==
    /\ row.expires_at # SqlNull
    /\ TextLessEq(row.expires_at, DatetimeNow(t))

\* SQLiteCache.cleanup
SQLiteCleanup(table, t, err) ==
    IF err THEN table
    ELSE [k \in {x \in DOMAIN table : ~RowSwept(table[x], t)} |-> table[k]]

EmptyTable == [k \in {} |-> 0]


\* CACHE_CONFIG
TODAY_TTL_SECONDS == 3 * 60 * 60
RECENT_TTL_SECONDS == 6 * 60 * 60

Tables == {"commits_cache", "prs_cache", "prs_review_cache", "issues_cache",
           "issue_events_cache"}

-----------------------------------------------------------------------------
(* The state of a freshly started process that has not begun a report *)

\* no handle was closed yet
NotClosed == [t \in Tables |-> 0]
NoFlags == [offline |-> FALSE, force |-> FALSE, skipCommits |-> FALSE]
\* cur: the unit generateReport is at, and whether an error is on its way out
NoUnit == [idx |-> 0, threw |-> FALSE]
\* work: what generateReport holds in locals that later loops walk
NoWork == [repos |-> <<>>, prs |-> <<>>, issues |-> <<>>, closedIssues |-> <<>>]
\* last: how the unit that ran last was resolved (history, read by no action)
NoLast == [kind |-> "none", key |-> <<>>, how |-> "none", cause |-> "none",
           net |-> FALSE, result |-> <<>>, fresh |-> <<>>, hadEntry |-> FALSE,
           skippedBefore |-> 0, before |-> <<>>]

ProcessStart ==
    /\ mem = [t \in Tables |-> EmptyTable]
    /\ closed = NotClosed
    /\ pc = "idle"
    /\ cur = NoUnit
    /\ work = NoWork
    /\ errorStats = [skippedPRs |-> 0, cachedFallbackPRs |-> 0]
    /\ last = NoLast

-----------------------------------------------------------------------------
(* SpecStore: the SQLiteCache API called directly on one table *)

StoreTable == "prs_cache"
StoreKeys == {<<"acme", "-", "k1">>, <<"acme", "-", "k2">>}
StoreValues == {JNull, JArr(<<>>), JArr(<<1, 2>>)}
StoreTtls == {TtlOmitted, 0, TODAY_TTL_SECONDS, RECENT_TTL_SECONDS}

\* the instant a write made at t with ttl seconds to live runs out
Deadline(ttl, t) == IF ttl = TtlOmitted \/ ttl = 0 THEN 0 ELSE t + ttl

NeverSet == [live |-> FALSE, val |-> JUndefined, ttl |-> 0, deadline |-> 0]

InitStore ==
    /\ now = 0
    /\ db = [t \in Tables |-> EmptyTable]
    /\ ret = [op |-> "none", key |-> <<>>, ok |-> TRUE, val |-> JUndefined, imm |-> FALSE, over |-> FALSE]
    /\ lastSet = [k \in StoreKeys |-> NeverSet]
    /\ flags = NoFlags
    /\ prior = "none"
    /\ ProcessStart

\* await cache.set(k, v, ttl); ret.over: the call replaced a row that had an expiry
StoreSet(k, v, ttl, err) ==
    /\ db' = [db EXCEPT ![StoreTable] = SQLiteSet(@, k, v, ttl, now, err)]
    /\ ret' = [op |-> "set", key |-> k, ok |-> ~err, val |-> JUndefined, imm |-> FALSE,
               over |-> (~err /\ k \in DOMAIN db[StoreTable]
                            /\ db[StoreTable][k].expires_at # SqlNull)]
    /\ lastSet' = IF err THEN lastSet
                  ELSE [lastSet EXCEPT ![k] =
                            [live |-> TRUE, val |-> v, ttl |-> ttl,
                             deadline |-> Deadline(ttl, now)]]
    /\ UNCHANGED <<now, fetchVars>>

\* await cache.get(k)
StoreGet(k, err) ==
    /\ LET r == SQLiteGet(db[StoreTable], k, now, err)
       IN ret' = [op |-> "get", key |-> k, ok |-> r.ok, val |-> r.val,
                  imm |-> (ret.op = "set" /\ ret.ok /\ ret.key = k), over |-> FALSE]
    /\ UNCHANGED <<now, db, lastSet, fetchVars>>

\* await cache.delete(k)
StoreDelete(k, err) ==
    /\ db' = [db EXCEPT ![StoreTable] = SQLiteDelete(@, k, err)]
    /\ ret' = [op |-> "delete", key |-> k, ok |-> ~err, val |-> JUndefined, imm |-> FALSE, over |-> FALSE]
    /\ lastSet' = IF err THEN lastSet ELSE [lastSet EXCEPT ![k] = NeverSet]
    /\ UNCHANGED <<now, fetchVars>>

\* await cache.clear()
StoreClear(err) ==
    /\ db' = [db EXCEPT ![StoreTable] = SQLiteClear(@, err)]
    /\ ret' = [op |-> "clear", key |-> <<>>, ok |-> ~err, val |-> JUndefined, imm |-> FALSE, over |-> FALSE]
    /\ lastSet' = IF err THEN lastSet ELSE [k \in StoreKeys |-> NeverSet]
    /\ UNCHANGED <<now, fetchVars>>

\* await cache.cleanup()
StoreCleanup(err) ==
    /\ db' = [db EXCEPT ![StoreTable] = SQLiteCleanup(@, now, err)]
    /\ ret' = [op |-> "cleanup", key |-> <<>>, ok |-> ~err, val |-> JUndefined, imm |-> FALSE, over |-> FALSE]
    /\ UNCHANGED <<now, lastSet, fetchVars>>

\* time passes between two calls
StoreTick ==
    /\ now + ClockStep <= MaxTime
    /\ now' = now + ClockStep
    /\ ret' = [op |-> "tick", key |-> <<>>, ok |-> TRUE, val |-> JUndefined, imm |-> FALSE, over |-> FALSE]
    /\ UNCHANGED <<db, lastSet, fetchVars>>

NextStore ==
    \/ \E k \in StoreKeys, v \in StoreValues, ttl \in StoreTtls, err \in BOOLEAN :
           StoreSet(k, v, ttl, err)
    \/ \E k \in StoreKeys, err \in BOOLEAN : StoreGet(k, err)
    \/ \E k \in StoreKeys, err \in BOOLEAN : StoreDelete(k, err)
    \/ \E err \in BOOLEAN : StoreClear(err)
    \/ \E err \in BOOLEAN : StoreCleanup(err)
    \/ StoreTick

SpecStore == InitStore /\ [][NextStore]_vars

\* what get(k) settles to in the current state when the engine works
GetNow(k) == SQLiteGet(db[StoreTable], k, now, FALSE).val


-----------------------------------------------------------------------------
(* SpecTables: the five SQLiteCache instances, each called on its own table *)

\* days the clock of SpecTables runs
TableDays == 1
TableKey == <<"acme", "-", "k1">>
TableValue == JArr(<<1, 2>>)
TableTtls == {TtlOmitted, TODAY_TTL_SECONDS}

\* the call that returned last, and the table of the instance it was made on
Called(op, table, ok) ==
    [op |-> op, key |-> TableKey, ok |-> ok, val |-> JUndefined, imm |-> FALSE,
     over |-> FALSE, table |-> table]

InitTables ==
    /\ now = 0
    /\ db = [t \in Tables |-> EmptyTable]
    /\ ret = Called("none", "none", TRUE)
    /\ lastSet = [k \in StoreKeys |-> NeverSet]
    /\ flags = NoFlags
    /\ prior = "none"
    /\ ProcessStart

\* clear() that ran DELETE on every table of the file
TableClear_EveryTable(table, err) ==
    /\ db' = [t \in Tables |-> SQLiteClear(db[t], err)]
    /\ ret' = Called("clear", table, ~err)
    /\ UNCHANGED <<now, lastSet, fetchVars>>

\* new SQLiteCache(table).set(k, v, ttl)
TableSet(table, ttl, err) ==
    /\ db' = [db EXCEPT ![table] = SQLiteSet(@, TableKey, TableValue, ttl, now, err)]
    /\ ret' = Called("set", table, ~err)
    /\ UNCHANGED <<now, lastSet, fetchVars>>

\* new SQLiteCache(table).delete(k)
TableDelete(table, err) ==
    /\ db' = [db EXCEPT ![table] = SQLiteDelete(@, TableKey, err)]
    /\ ret' = Called("delete", table, ~err)
    /\ UNCHANGED <<now, lastSet, fetchVars>>

\* new SQLiteCache(table).clear()
TableClear(table, err) ==
    /\ db' = [db EXCEPT ![table] = SQLiteClear(@, err)]
    /\ ret' = Called("clear", table, ~err)
    /\ UNCHANGED <<now, lastSet, fetchVars>>

\* new SQLiteCache(table).cleanup()
TableCleanup(table, err) ==
    /\ db' = [db EXCEPT ![table] = SQLiteCleanup(@, now, err)]
    /\ ret' = Called("cleanup", table, ~err)
    /\ UNCHANGED <<now, lastSet, fetchVars>>

\* a day passes between two calls
TablesTick ==
    /\ now < TableDays * SecondsPerDay
    /\ now' = now + SecondsPerDay
    /\ ret' = Called("tick", "none", TRUE)
    /\ UNCHANGED <<db, lastSet, fetchVars>>

NextTables ==
    \/ \E table \in Tables, ttl \in TableTtls, err \in BOOLEAN : TableSet(table, ttl, err)
    \/ \E table \in Tables, err \in BOOLEAN : TableDelete(table, err)
    \/ \E table \in Tables, err \in BOOLEAN : TableClear(table, err)
    \/ \E table \in Tables, err \in BOOLEAN : TableCleanup(table, err)
    \/ TablesTick

SpecTables == InitTables /\ [][NextTables]_vars

-----------------------------------------------------------------------------
(* CompatibilityCache: a Map in memory in front of a SQLiteCache *)

\* Map.prototype.set
MapSet(m, key, v) == [k \in DOMAIN m \cup {key} |-> IF k = key THEN v ELSE m[k]]

\* CompatibilityCache.get: the memory mirror alone is read
CompatGet(m, key) == IF key \in DOMAIN m THEN m[key] ELSE JUndefined

\* CompatibilityCache.preloadKey: memory after the durable read resolved to r
PreloadKey(m, key, r) == IF r.val # JUndefined THEN MapSet(m, key, r.val) ELSE m

-----------------------------------------------------------------------------
(* The report a process generates: dates, intervals, keys *)

DAYS_IN_INTERVAL == 5
\* length in days of the reporting period the model runs (PERIODS: 14 .. 84)
PeriodDays == 10
\* per_page of the search requests, scaled down
PerPage == 1
\* search requests one interval issues at most before its loop ends
MaxCalls == 2
\* highest pull request / issue number the upstream holds
MaxRec == 1

SecondsPerHour == 60 * 60
\* the instant the process starts generateReport: day 20, 09:40 UTC
RunTime == 20 * SecondsPerDay + 9 * SecondsPerHour + 40 * 60

\* roundDateToNearestHour
RoundDateToNearestHour(t) ==
    IF (t % SecondsPerHour) \div 60 >= 30
        THEN t - (t % SecondsPerHour) + SecondsPerHour
        ELSE t - (t % SecondsPerHour)

RECURSIVE DateIntervalsLoop(_, _, _, _)
\* the while loop of getDateIntervals (the declaration with hour rounding,
\* the later of the two in utils.ts).  roundDateToNearestHour rounds its
\* argument in place, so endDate itself is rounded when it closes the last
\* interval; the loop yields the intervals and the endDate it leaves behind.
DateIntervalsLoop(currentStartDate, endDate, intervalInDays, intervals) ==
    IF ~(currentStartDate < endDate)
        THEN [intervals |-> intervals, endDate |-> endDate]
    ELSE LET currentEndDate == currentStartDate + intervalInDays * SecondsPerDay
             clip == currentEndDate > endDate
             until == IF clip THEN RoundDateToNearestHour(endDate)
                      ELSE RoundDateToNearestHour(currentEndDate)
         IN DateIntervalsLoop(
                IF clip THEN currentEndDate ELSE until,
                IF clip THEN until ELSE endDate,
                intervalInDays,
                Append(intervals,
                       [since |-> RoundDateToNearestHour(currentStartDate),
                        until |-> until]))

GetDateIntervals(startDate, endDate, intervalInDays) ==
    DateIntervalsLoop(startDate, endDate, intervalInDays, <<>>).intervals

\* generateReport: endDate is yesterday, startDate one period before it.  The
\* model runs one period, which is also the range preloadCacheForDateRange
\* walks first; the calls after the preload see the endDate it left behind.
StartDate(t) == t - SecondsPerDay - PeriodDays * SecondsPerDay
PreloadIntervals(t) ==
    GetDateIntervals(StartDate(t), t - SecondsPerDay, DAYS_IN_INTERVAL)
EndDate(t) ==
    DateIntervalsLoop(StartDate(t), t - SecondsPerDay, DAYS_IN_INTERVAL, <<>>).endDate
ReportIntervals(t) == GetDateIntervals(StartDate(t), EndDate(t), DAYS_IN_INTERVAL)

Owner == <<"acme">>
\* what fetchRepositories returns when the listing succeeds
RepoNames == << <<"web">> >>

\* the template literals that build cache keys; the parts are joined by "-"
IntervalKey(kind, iv) == <<Owner, <<kind>>, ToISOString(iv.since), ToISOString(iv.until)>>
CommitsKey(repo, t) ==
    <<Owner, repo, ToISOString(StartDate(t)), ToISOString(EndDate(t))>>
ReviewsKey(repo, prNumber) == <<Owner, repo, <<DigitText[prNumber]>> >>
EventsKey(repo, issueNumber) ==
    <<Owner, repo, <<"issue">>, <<DigitText[issueNumber]>>, <<"events">> >>

\* the table behind each kind of fetch unit
TableOf(kind) ==
    CASE kind = "commits" -> "commits_cache"
      [] kind = "prs" -> "prs_cache"
      [] kind = "reviews" -> "prs_review_cache"
      [] kind \in {"issues", "closed-issues"} -> "issues_cache"
      [] kind = "events" -> "issue_events_cache"

HISTORICAL_TTL_SECONDS == 0
REVIEWS_TTL_SECONDS == 0

\* a getSmartCacheTTL whose ladder of ages applies to every data type
GetSmartCacheTTL_AgeOnly(until, dataType, t) ==
    LET daysAgo == (t - until) \div SecondsPerDay
    IN IF daysAgo > 7 THEN HISTORICAL_TTL_SECONDS
       ELSE IF daysAgo > 0 THEN RECENT_TTL_SECONDS
       ELSE TODAY_TTL_SECONDS

\* getSmartCacheTTL
GetSmartCacheTTL(until, dataType, t) ==
    LET daysAgo == (t - until) \div SecondsPerDay
    IN IF dataType \in {"reviews", "events"} THEN REVIEWS_TTL_SECONDS
       ELSE IF daysAgo > 7 THEN HISTORICAL_TTL_SECONDS
       ELSE IF daysAgo > 0 THEN RECENT_TTL_SECONDS
       ELSE TODAY_TTL_SECONDS

-----------------------------------------------------------------------------
(* What the upstream answers, and what an earlier run left in the files *)

\* one answer of the upstream to one request
Answer(type, items) == [type |-> type, items |-> items]
PageItems == UNION {[1..n -> 1..MaxRec] : n \in 0..PerPage}
\* search requests: a page, a 403, or any other failure
SearchAnswers ==
    {Answer("ok", items) : items \in PageItems}
        \cup {Answer("403", <<>>), Answer("error", <<>>)}
\* hasMore = response.data.items.length === 100, and the retry after a 403
SearchContinues(r) == (r.type = "ok" /\ Len(r.items) = PerPage) \/ r.type = "403"
\* GraphQL requests: a page with or without hasNextPage, or a failure
GraphAnswers ==
    {Answer(type, items) : type \in {"more", "end"}, items \in PageItems}
        \cup {Answer("error", <<>>)}

\* the answers one unit receives until its loop ends
Scripts(answers, n) == UNION {[1..k -> answers] : k \in 1..n}
SearchScripts ==
    {sc \in Scripts(SearchAnswers, MaxCalls) :
        \A i \in 1..Len(sc) : SearchContinues(sc[i]) <=> i < Len(sc)}

RECURSIVE SearchLoop(_, _)
\* the while (hasMore) loop of the three interval fetchers
SearchLoop(script, acc) ==
    IF script = <<>> THEN [items |-> acc, failed |-> FALSE]
    ELSE LET r == Head(script)
         IN IF r.type = "ok"
                THEN IF Len(r.items) = PerPage
                         THEN SearchLoop(Tail(script), acc \o r.items)
                         ELSE [items |-> acc \o r.items, failed |-> FALSE]
            ELSE IF r.type = "403" THEN SearchLoop(Tail(script), acc)
            ELSE [items |-> acc, failed |-> TRUE]

\* what rateLimit.get answers: the search quota left and the instant it is
\* reset, or a failure of the call
QuotaAnswer(ok, remaining, reset) == [ok |-> ok, remaining |-> remaining, reset |-> reset]
\* resetTime left out of the result
NoResetTime == 0 - 1

\* checkRateLimit that keeps no request in hand at the buffer itself
CheckRateLimit_BelowBuffer(quota) ==
    IF quota.ok /\ quota.remaining < 5
        THEN [canMakeRequest |-> FALSE, resetTime |-> quota.reset]
        ELSE [canMakeRequest |-> TRUE, resetTime |-> NoResetTime]

\* checkRateLimit that refuses when the quota cannot be read
CheckRateLimit_FailClosed(quota) ==
    IF ~quota.ok THEN [canMakeRequest |-> FALSE, resetTime |-> NoResetTime]
    ELSE IF quota.remaining <= 5
        THEN [canMakeRequest |-> FALSE, resetTime |-> quota.reset]
    ELSE [canMakeRequest |-> TRUE, resetTime |-> NoResetTime]

\* checkRateLimit: what it returns for what rateLimit.get answers
CheckRateLimit(quota) ==
    IF ~quota.ok THEN [canMakeRequest |-> TRUE, resetTime |-> NoResetTime]
    ELSE IF quota.remaining <= 5
        THEN [canMakeRequest |-> FALSE, resetTime |-> quota.reset]
    ELSE [canMakeRequest |-> TRUE, resetTime |-> NoResetTime]

\* the lines of an interval fetcher between checkRateLimit and its first
\* request: whether the interval goes on to the network (page 1), and the
\* instant it does so, after waitForRateLimit when the quota is low
RateLimitGate(rateLimitStatus, t) ==
    [proceed |-> rateLimitStatus.canMakeRequest \/ rateLimitStatus.resetTime # NoResetTime,
     at |-> IF ~rateLimitStatus.canMakeRequest
                 /\ rateLimitStatus.resetTime # NoResetTime
                 /\ rateLimitStatus.resetTime - t > 0
            THEN rateLimitStatus.resetTime ELSE t,
     page |-> 1]

\* the answers a run meets: plenty left, the buffer reached, the call failing
Quotas == {QuotaAnswer(TRUE, 30, RunTime + 10 * 60), QuotaAnswer(TRUE, 5, RunTime + 10 * 60),
           QuotaAnswer(FALSE, 0, 0)}

RECURSIVE WriteRows(_, _, _)
\* a table after SQLiteCache.set ran for each of rows at instant t
WriteRows(table, rows, t) ==
    IF rows = <<>> THEN table
    ELSE WriteRows(SQLiteSet(table, rows[1].key, rows[1].value, rows[1].ttl, t, FALSE),
                   Tail(rows), t)

\* the rows a complete run at instant t writes for a kind of interval
IntervalRows(kind, t) ==
    [i \in 1..Len(ReportIntervals(t)) |->
        [key |-> IntervalKey(kind, ReportIntervals(t)[i]),
         value |-> JArr(<<MaxRec>>),
         ttl |-> GetSmartCacheTTL(ReportIntervals(t)[i].until, kind, t)]]

\* whether an earlier process ran, five minutes before this one
Priors == {"none", "recent"}
PriorTime(p) == RunTime - 5 * 60

\* the files as that earlier run, which found one record everywhere, left them
PriorDb(p) ==
    IF p = "none" THEN [t \in Tables |-> EmptyTable]
    ELSE LET t0 == PriorTime(p) IN
      [t \in Tables |->
        CASE t = "prs_cache" -> WriteRows(EmptyTable, IntervalRows("prs", t0), t0)
          [] t = "issues_cache" ->
                WriteRows(EmptyTable,
                          IntervalRows("issues", t0) \o IntervalRows("closed-issues", t0), t0)
          [] t = "prs_review_cache" ->
                WriteRows(EmptyTable,
                          [n \in 1..MaxRec |->
                              [key |-> ReviewsKey(RepoNames[1], n), value |-> JObj(<<n>>),
                               ttl |-> REVIEWS_TTL_SECONDS]], t0)
          [] t = "issue_events_cache" ->
                WriteRows(EmptyTable,
                          [n \in 1..MaxRec |->
                              [key |-> EventsKey(RepoNames[1], n), value |-> JArr(<<n>>),
                               ttl |-> REVIEWS_TTL_SECONDS]], t0)
          [] t = "commits_cache" ->
                WriteRows(EmptyTable,
                          <<[key |-> CommitsKey(RepoNames[1], t0), value |-> JArr(<<>>),
                             ttl |-> TtlOmitted]>>, t0)]

-----------------------------------------------------------------------------
(* generateReport: one process, one run *)

Init ==
    /\ now = RunTime
    /\ flags \in [offline : BOOLEAN, force : BOOLEAN, skipCommits : BOOLEAN]
    /\ prior \in Priors
    /\ db = PriorDb(prior)
    /\ ret = [op |-> "none", key |-> <<>>, ok |-> TRUE, val |-> JUndefined, imm |-> FALSE, over |-> FALSE]
    /\ lastSet = [k \in StoreKeys |-> NeverSet]
    /\ ProcessStart

Phases == <<"commits", "prs", "issues", "events", "reviews", "closed-issues",
            "participation">>
UnitKinds == {"commits", "prs", "issues", "events", "reviews", "closed-issues"}

\* how many units a loop of generateReport walks
Units(phase, w) ==
    CASE phase = "commits" -> IF flags.skipCommits THEN 0 ELSE Len(w.repos)
      [] phase \in {"prs", "issues", "closed-issues"} -> Len(ReportIntervals(now))
      [] phase = "events" -> Len(w.issues)
      [] phase = "reviews" -> Len(w.prs)
      [] phase = "participation" -> Len(w.closedIssues)

RECURSIVE Goto(_, _)
\* the first loop from Phases[i] on that has a unit to run
Goto(i, w) ==
    IF i > Len(Phases) THEN [pc |-> "finally", idx |-> 0]
    ELSE IF Units(Phases[i], w) > 0 THEN [pc |-> Phases[i], idx |-> 1]
    ELSE Goto(i + 1, w)

PhaseIndex(phase) == CHOOSE i \in 1..Len(Phases) : Phases[i] = phase

\* control after the unit at hand returned, w being the locals it leaves
Return(w) ==
    LET to == IF cur.idx < Units(pc, w) THEN [pc |-> pc, idx |-> cur.idx + 1]
              ELSE Goto(PhaseIndex(pc) + 1, w)
    IN /\ pc' = to.pc
       /\ cur' = [idx |-> to.idx, threw |-> FALSE]
       /\ work' = w

\* control after the unit at hand threw: nothing between it and the catch of
\* generateReport handles the error
Throw ==
    /\ pc' = "finally"
    /\ cur' = [idx |-> 0, threw |-> TRUE]
    /\ work' = work

HadEntry(kind, key) == kind \in UnitKinds /\ RowVisible(db[TableOf(kind)], key, now)

Outcome(kind, key, how, cause, net, result, fresh) ==
    [kind |-> kind, key |-> key, how |-> how, cause |-> cause, net |-> net,
     result |-> result, fresh |-> fresh, hadEntry |-> HadEntry(kind, key),
     skippedBefore |-> errorStats.skippedPRs,
     before |-> IF kind = "prs" THEN work.prs
                ELSE IF kind = "issues" THEN work.issues
                ELSE IF kind = "closed-issues" THEN work.closedIssues
                ELSE <<>>]

\* what no step of a run changes
runFixed == <<now, ret, lastSet, flags, prior>>

\* generateReport up to the repository listing: resetStats, fetchRepositories.
\* A GraphQL error or a failed request is thrown.
FetchRepositories(answer) ==
    /\ pc = "idle"
    /\ errorStats' = [skippedPRs |-> 0, cachedFallbackPRs |-> 0]
    /\ IF answer = "ok"
          THEN /\ pc' = "cleanup"
               /\ cur' = cur
               /\ work' = [work EXCEPT !.repos = RepoNames]
               /\ last' = Outcome("repos", <<>>, "network", "none", TRUE, <<>>, <<>>)
          ELSE /\ Throw
               /\ last' = Outcome("repos", <<>>, "threw", "upstream", TRUE, <<>>, <<>>)
    /\ UNCHANGED <<db, mem, closed, runFixed>>

\* cleanupAllCaches: each table is swept, an error in one is logged
CleanupAllCaches(failing) ==
    /\ pc = "cleanup"
    /\ db' = [t \in Tables |-> SQLiteCleanup(db[t], now, t \in failing)]
    /\ pc' = "preload"
    /\ last' = Outcome("cleanup", <<>>, "none", "none", FALSE, <<>>, <<>>)
    /\ UNCHANGED <<mem, closed, cur, work, errorStats, runFixed>>

RECURSIVE PreloadKeys(_, _, _)
\* the memory of one cache after preloadKey ran for each of keys
PreloadKeys(m, table, keys) ==
    IF keys = <<>> THEN m
    ELSE PreloadKeys(PreloadKey(m, keys[1], SQLiteGet(table, keys[1], now, FALSE)),
                     table, Tail(keys))

KeysOf(kind, ivs) == [i \in 1..Len(ivs) |-> IntervalKey(kind, ivs[i])]

\* preloadCacheForDateRange; a read that fails rejects the whole call
PreloadCacheForDateRange(err) ==
    /\ pc = "preload"
    /\ IF err
          THEN /\ Throw
               /\ mem' = mem
               /\ last' = Outcome("preload", <<>>, "threw", "cache-read", FALSE, <<>>, <<>>)
          ELSE LET ivs == PreloadIntervals(now)
                   to == Goto(1, work)
               IN /\ mem' = [mem EXCEPT
                        !["prs_cache"] =
                            PreloadKeys(@, db["prs_cache"], KeysOf("prs", ivs)),
                        !["issues_cache"] =
                            PreloadKeys(@, db["issues_cache"],
                                        KeysOf("issues", ivs) \o KeysOf("closed-issues", ivs))]
                  /\ pc' = to.pc
                  /\ cur' = [idx |-> to.idx, threw |-> FALSE]
                  /\ work' = work
                  /\ last' = Outcome("preload", <<>>, "cache", "none", FALSE, <<>>, <<>>)
    /\ UNCHANGED <<db, closed, errorStats, runFixed>>

\* the dataType an interval fetcher hands to getSmartCacheTTL
SmartType(kind) == IF kind = "prs" THEN "prs" ELSE "issues"

\* an interval write that always takes the time to live of today's data
CacheInterval_TodayTtl(table, kind, iv, interval, t, err) ==
    SQLiteSet(table, IntervalKey(kind, iv), JArr(interval), TODAY_TTL_SECONDS, t, err)

\* the durable half of "cache the results with smart TTL": the table after
\* setAsync(cacheKey, interval, getSmartCacheTTL({since, until}, dataType))
CacheInterval(table, kind, iv, interval, t, err) ==
    SQLiteSet(table, IntervalKey(kind, iv), JArr(interval),
              GetSmartCacheTTL(iv.until, SmartType(kind), t), t, err)

\* One interval of fetchPullRequestsInDateRange, fetchIssuesInDateRange or
\* fetchClosedIssuesInDateRange: one turn of the for loop.
FetchInterval(kind, readErr, quota, script, writeErr) ==
    LET key == IntervalKey(kind, ReportIntervals(now)[cur.idx])
        table == TableOf(kind)
        cachedResult == IF flags.force THEN Resolved(JNull)
                        ELSE SQLiteGet(db[table], key, now, readErr)
        hit == /\ Truthy(cachedResult.val)
               /\ cachedResult.val.kind = "arr"
               /\ Len(cachedResult.val.xs) > 0
               /\ ~flags.force
        rateLimitStatus == CheckRateLimit(quota)
        iv == ReportIntervals(now)[cur.idx]
        fetched == SearchLoop(script, <<>>)
        interval == fetched.items
        Push(items) ==
            CASE kind = "prs" -> [work EXCEPT !.prs = @ \o items]
              [] kind = "issues" -> [work EXCEPT !.issues = @ \o items]
              [] kind = "closed-issues" -> [work EXCEPT !.closedIssues = @ \o items]
    IN
    /\ pc = kind
    /\ IF ~cachedResult.ok THEN
            /\ Throw
            /\ UNCHANGED <<db, mem>>
            /\ last' = Outcome(kind, key, "threw", "cache-read", FALSE, <<>>, <<>>)
       ELSE IF hit THEN
            /\ Return(Push(cachedResult.val.xs))
            /\ UNCHANGED <<db, mem>>
            /\ last' = Outcome(kind, key, "cache", "none", FALSE, cachedResult.val.xs, <<>>)
       ELSE IF flags.offline THEN
            /\ Return(work)
            /\ UNCHANGED <<db, mem>>
            /\ last' = Outcome(kind, key, "offline", "none", FALSE, <<>>, <<>>)
       ELSE IF ~RateLimitGate(rateLimitStatus, now).proceed THEN
            /\ Return(work)
            /\ UNCHANGED <<db, mem>>
            /\ last' = Outcome(kind, key, "failed", "upstream", TRUE, <<>>, <<>>)
       ELSE IF interval = <<>> THEN
            /\ Return(work)
            /\ UNCHANGED <<db, mem>>
            /\ last' = Outcome(kind, key, IF fetched.failed THEN "failed" ELSE "network",
                               IF fetched.failed THEN "upstream" ELSE "none",
                               TRUE, <<>>, <<>>)
       ELSE
            /\ mem' = [mem EXCEPT ![table] = MapSet(@, key, JArr(interval))]
            /\ db' = [db EXCEPT ![table] = CacheInterval(@, kind, iv, interval, now, writeErr)]
            /\ IF writeErr
                  THEN /\ Throw
                       /\ last' = Outcome(kind, key, "threw", "cache-write", TRUE,
                                          <<>>, interval)
                  ELSE /\ Return(Push(interval))
                       /\ last' = Outcome(kind, key,
                                          IF fetched.failed THEN "failed" ELSE "network",
                                          IF fetched.failed THEN "upstream" ELSE "none",
                                          TRUE, interval, interval)
    /\ UNCHANGED <<closed, errorStats, runFixed>>

FetchPullRequestsInterval ==
    \E readErr \in BOOLEAN, quota \in Quotas, script \in SearchScripts, writeErr \in BOOLEAN :
        FetchInterval("prs", readErr, quota, script, writeErr)

FetchIssuesInterval ==
    \E readErr \in BOOLEAN, quota \in Quotas, script \in SearchScripts, writeErr \in BOOLEAN :
        FetchInterval("issues", readErr, quota, script, writeErr)

FetchClosedIssuesInterval ==
    \E readErr \in BOOLEAN, quota \in Quotas, script \in SearchScripts, writeErr \in BOOLEAN :
        FetchInterval("closed-issues", readErr, quota, script, writeErr)

MAX_RETRIES == 3

RECURSIVE GraphLoop(_, _, _, _)
\* a while (hasMore) loop over GraphQL pages; each page is tried `budget`
\* times before the loop gives up ("exhausted").  "open": the answers ran
\* out before the loop ended.
GraphLoop(script, budget, retries, acc) ==
    IF script = <<>> THEN [items |-> acc, end |-> "open", rest |-> <<>>]
    ELSE LET r == Head(script)
         IN IF r.type = "more"
                THEN GraphLoop(Tail(script), budget, budget, acc \o r.items)
            ELSE IF r.type = "end"
                THEN [items |-> acc \o r.items, end |-> "done", rest |-> Tail(script)]
            ELSE IF retries - 1 = 0
                THEN [items |-> acc, end |-> "exhausted", rest |-> Tail(script)]
            ELSE GraphLoop(Tail(script), budget, retries - 1, acc)

\* the answers that take such a loop exactly to its end
GraphScripts(budget) ==
    {sc \in Scripts(GraphAnswers, MAX_RETRIES) :
        LET run == GraphLoop(sc, budget, budget, <<>>)
        IN run.end # "open" /\ run.rest = <<>>}

\* fetchCommits for one repository (one turn of fetchCommitsInDateRange).  A
\* GraphQL error that is no RATE_LIMITED error, or a request that fails, is
\* thrown at the first occurrence; the waits on rate limits re-issue the
\* request and are left out.
FetchCommits(script, writeErr) ==
    LET key == CommitsKey(work.repos[cur.idx], now)
        cachedResult == CompatGet(mem["commits_cache"], key)
        run == GraphLoop(script, 1, 1, <<>>)
        theseDatesCommits == <<>>
    IN
    /\ pc = "commits"
    /\ IF Truthy(cachedResult) THEN
            /\ Return(work)
            /\ UNCHANGED <<db, mem>>
            /\ last' = Outcome("commits", key, "cache", "none", FALSE, cachedResult.xs, <<>>)
       ELSE IF run.end = "exhausted" THEN
            /\ Throw
            /\ UNCHANGED <<db, mem>>
            /\ last' = Outcome("commits", key, "threw", "upstream", TRUE, <<>>, <<>>)
       ELSE
            /\ mem' = [mem EXCEPT !["commits_cache"] = MapSet(@, key, JArr(theseDatesCommits))]
            /\ db' = [db EXCEPT !["commits_cache"] =
                        SQLiteSet(@, key, JArr(theseDatesCommits), TtlOmitted, now, writeErr)]
            /\ Return(work)
            /\ last' = Outcome("commits", key, "network",
                               IF writeErr THEN "cache-write" ELSE "none",
                               TRUE, run.items, run.items)
    /\ UNCHANGED <<closed, errorStats, runFixed>>

\* fetchLabelEventsForIssue for one issue of aggregateLabelMetricsByRepo; the
\* events the upstream returns are all "labeled" events inside the range
FetchLabelEventsForIssue(answer, writeErr) ==
    LET key == EventsKey(RepoNames[1], work.issues[cur.idx])
        cachedResult == CompatGet(mem["issue_events_cache"], key)
        labelEvents == answer.items
    IN
    /\ pc = "events"
    /\ IF Truthy(cachedResult) THEN
            /\ UNCHANGED <<db, mem>>
            /\ last' = Outcome("events", key, "cache", "none", FALSE, cachedResult.xs, <<>>)
       ELSE IF answer.type = "error" THEN
            /\ UNCHANGED <<db, mem>>
            /\ last' = Outcome("events", key, "failed", "upstream", TRUE, <<>>, <<>>)
       ELSE
            /\ mem' = [mem EXCEPT !["issue_events_cache"] = MapSet(@, key, JArr(labelEvents))]
            /\ db' = [db EXCEPT !["issue_events_cache"] =
                        SQLiteSet(@, key, JArr(labelEvents), REVIEWS_TTL_SECONDS, now, writeErr)]
            /\ last' = IF writeErr
                         THEN Outcome("events", key, "failed", "cache-write", TRUE,
                                      <<>>, labelEvents)
                         ELSE Outcome("events", key, "network", "none", TRUE,
                                      labelEvents, labelEvents)
    /\ Return(work)
    /\ UNCHANGED <<closed, errorStats, runFixed>>

\* fetchReviewsForPR for one pull request of aggregateMetricsByDateRange
FetchReviewsForPR(script, writeErr) ==
    LET key == ReviewsKey(RepoNames[1], work.prs[cur.idx])
        cachedResult == CompatGet(mem["prs_review_cache"], key)
        run == GraphLoop(script, MAX_RETRIES, MAX_RETRIES, <<>>)
        cachedFallback == CompatGet(mem["prs_review_cache"], key)
        reviewData == JObj(run.items)
    IN
    /\ pc = "reviews"
    /\ IF Truthy(cachedResult) THEN
            /\ Return(work)
            /\ UNCHANGED <<db, mem, errorStats>>
            /\ last' = Outcome("reviews", key, "cache", "none", FALSE, cachedResult.xs, <<>>)
       ELSE IF flags.offline THEN
            /\ Return(work)
            /\ UNCHANGED <<db, mem, errorStats>>
            /\ last' = Outcome("reviews", key, "offline", "none", FALSE, <<>>, <<>>)
       ELSE IF run.end = "exhausted" THEN
            /\ Return(work)
            /\ UNCHANGED <<db, mem>>
            /\ IF Truthy(cachedFallback)
                  THEN /\ errorStats' = [errorStats EXCEPT !.cachedFallbackPRs = @ + 1]
                       /\ last' = Outcome("reviews", key, "fallback", "upstream", TRUE,
                                          cachedFallback.xs, <<>>)
                  ELSE /\ errorStats' = [errorStats EXCEPT !.skippedPRs = @ + 1]
                       /\ last' = Outcome("reviews", key, "failed", "upstream", TRUE,
                                          <<>>, <<>>)
       ELSE
            /\ mem' = [mem EXCEPT !["prs_review_cache"] = MapSet(@, key, reviewData)]
            /\ db' = [db EXCEPT !["prs_review_cache"] =
                        SQLiteSet(@, key, reviewData, REVIEWS_TTL_SECONDS, now, writeErr)]
            /\ errorStats' = errorStats
            /\ IF writeErr
                  THEN /\ Throw
                       /\ last' = Outcome("reviews", key, "threw", "cache-write", TRUE,
                                          <<>>, run.items)
                  ELSE /\ Return(work)
                       /\ last' = Outcome("reviews", key, "network", "none", TRUE,
                                          run.items, run.items)
    /\ UNCHANGED <<closed, runFixed>>

\* one closed issue of aggregateClosedIssueParticipation: fetchIssueComments and
\* findPRsMentioningIssue, each of which answers [] when its request fails
FetchParticipation(comments, mentions) ==
    /\ pc = "participation"
    /\ Return(work)
    /\ last' = Outcome("participation", <<>>,
                       IF "error" \in {comments.type, mentions.type} THEN "failed"
                       ELSE "network",
                       IF "error" \in {comments.type, mentions.type} THEN "upstream"
                       ELSE "none",
                       TRUE, comments.items \o mentions.items,
                       comments.items \o mentions.items)
    /\ UNCHANGED <<db, mem, closed, errorStats, runFixed>>

\* const caches = [COMMITS_CACHE, PRS_CACHE, PRS_REVIEW_CACHE, ISSUES_CACHE, ISSUE_EVENTS_CACHE]
CloseOrder == <<"commits_cache", "prs_cache", "prs_review_cache", "issues_cache",
                "issue_events_cache">>

RECURSIVE CloseLoop_NoCatch(_, _, _)
\* a loop over the caches without try/catch: the first failure ends it
CloseLoop_NoCatch(caches, counts, failing) ==
    IF caches = <<>> THEN counts
    ELSE LET called == [counts EXCEPT ![Head(caches)] = @ + 1]
         IN IF Head(caches) \in failing THEN called
            ELSE CloseLoop_NoCatch(Tail(caches), called, failing)

CloseAll_StopAtFailure(counts, failing) == CloseLoop_NoCatch(CloseOrder, counts, failing)

RECURSIVE CloseLoop(_, _, _)
\* for (const cache of caches) { try { await cache.close() } catch { log } };
\* SQLiteCache.close logs the error of a handle in failing and resolves
CloseLoop(caches, counts, failing) ==
    IF caches = <<>> THEN counts
    ELSE CloseLoop(Tail(caches), [counts EXCEPT ![Head(caches)] = @ + 1], failing)

\* closeAllCaches: the calls of close() made so far, per table
CloseAll(counts, failing) == CloseLoop(CloseOrder, counts, failing)

\* the handles whose close fails: none, one, or all
CloseFailures == {{}, Tables} \cup {{t} : t \in Tables}

\* the finally of generateReport: closeAllCaches; the error caught is rethrown
CloseAllCaches(failing) ==
    /\ pc = "finally"
    /\ closed' = CloseAll(closed, failing)
    /\ pc' = "exited"
    /\ last' = Outcome("close", <<>>, "none",
                       IF failing # {} THEN "close" ELSE "none", FALSE, <<>>, <<>>)
    /\ UNCHANGED <<db, mem, cur, work, errorStats, runFixed>>

PlainAnswers == {Answer("ok", items) : items \in PageItems} \cup {Answer("error", <<>>)}

Next ==
    \/ \E answer \in {"ok", "error"} : FetchRepositories(answer)
    \/ \E failing \in SUBSET Tables : CleanupAllCaches(failing)
    \/ \E err \in BOOLEAN : PreloadCacheForDateRange(err)
    \/ \E script \in GraphScripts(1), writeErr \in BOOLEAN : FetchCommits(script, writeErr)
    \/ FetchPullRequestsInterval
    \/ FetchIssuesInterval
    \/ \E answer \in PlainAnswers, writeErr \in BOOLEAN :
            FetchLabelEventsForIssue(answer, writeErr)
    \/ \E script \in GraphScripts(MAX_RETRIES), writeErr \in BOOLEAN :
            FetchReviewsForPR(script, writeErr)
    \/ FetchClosedIssuesInterval
    \/ \E comments \in PlainAnswers, mentions \in PlainAnswers :
            FetchParticipation(comments, mentions)
    \/ \E failing \in CloseFailures : CloseAllCaches(failing)

Spec == Init /\ [][Next]_vars

-----------------------------------------------------------------------------
(* SpecCalls: the helpers of the fetchers, called with arguments of all kinds *)

\* the days before and after day 20 the until instants of the calls reach
UntilDaysBack == 9
UntilDaysAhead == 1
\* the longest range, in days, handed to getDateIntervals
MaxSpanDays == 11
\* the longest interval length handed to getDateIntervals
MaxIntervalDays == 5

\* the instants at which the calls are made: midnight of day 20 and RunTime
CallTimes == {20 * SecondsPerDay, RunTime}
DataTypes == {"prs", "issues", "reviews", "events"}
CallUntils ==
    {d * SecondsPerDay + h * SecondsPerHour :
        d \in (20 - UntilDaysBack)..(20 + UntilDaysAhead), h \in {0, 9, 10}}
\* one until instant on each rung of the ladder: today, recent, historical
WriteUntils == {19 * SecondsPerDay + 10 * SecondsPerHour,
                14 * SecondsPerDay + 10 * SecondsPerHour,
                11 * SecondsPerDay + 10 * SecondsPerHour}
CallStarts == {9 * SecondsPerDay + 9 * SecondsPerHour + m * 60 : m \in {0, 10, 40}}
CallSpans ==
    {d * SecondsPerDay + m * 60 : d \in {1, 5, 10, MaxSpanDays}, m \in {0, 20}}
QuotaRemaining == {0, 4, 5, 6, 30}
QuotaResets == {RunTime - 60, RunTime + 10 * 60}
AllQuotas ==
    {QuotaAnswer(TRUE, r, at) : r \in QuotaRemaining, at \in QuotaResets}
        \cup {QuotaAnswer(FALSE, 0, 0)}

\* the call that returned last: its name, its arguments, what it returned
Call(op, args, out) == [op |-> op, args |-> args, out |-> out]

InitCalls ==
    /\ now \in CallTimes
    /\ db = [t \in Tables |-> EmptyTable]
    /\ ret = Call("none", <<>>, <<>>)
    /\ lastSet = [k \in StoreKeys |-> NeverSet]
    /\ flags = NoFlags
    /\ prior = "none"
    /\ ProcessStart

\* getSmartCacheTTL({since, until}, dataType) at the instant now
CallGetSmartCacheTTL(dataType, until) ==
    /\ ret' = Call("getSmartCacheTTL", <<dataType, until>>,
                   GetSmartCacheTTL(until, dataType, now))
    /\ UNCHANGED <<now, db, lastSet, fetchVars>>

\* the cache write of an interval fetcher (if (interval.length > 0) ...
\* setAsync), made on a cache file that holds nothing yet
CallCacheInterval(kind, iv) ==
    /\ \A t \in Tables : db[t] = EmptyTable
    /\ db' = [db EXCEPT ![TableOf(kind)] = CacheInterval(@, kind, iv, <<MaxRec>>, now, FALSE)]
    /\ ret' = Call("cacheInterval", <<kind, iv.until>>, IntervalKey(kind, iv))
    /\ UNCHANGED <<now, lastSet, fetchVars>>

\* getDateIntervals(startDate, endDate, intervalInDays): what it returns, and
\* the instants the two Date objects handed to it hold after the call
\* (startDate is only read, through new Date(startDate))
CallGetDateIntervals(startDate, endDate, intervalInDays) ==
    /\ ret' = Call("getDateIntervals", <<startDate, endDate, intervalInDays>>,
                   [intervals |-> GetDateIntervals(startDate, endDate, intervalInDays),
                    startDate |-> startDate,
                    endDate |-> DateIntervalsLoop(startDate, endDate, intervalInDays,
                                                  <<>>).endDate])
    /\ UNCHANGED <<now, db, lastSet, fetchVars>>

\* checkRateLimit and the lines after it in an interval fetcher; the wait of
\* waitForRateLimit moves the clock to the instant the fetcher goes on
CallRateLimitGate(quota) ==
    /\ ret' = Call("rateLimitGate", quota,
                   [status |-> CheckRateLimit(quota),
                    gate |-> RateLimitGate(CheckRateLimit(quota), now),
                    calledAt |-> now])
    /\ now' = RateLimitGate(CheckRateLimit(quota), now).at
    /\ UNCHANGED <<db, lastSet, fetchVars>>

NextCalls ==
    \/ \E dataType \in DataTypes, until \in CallUntils : CallGetSmartCacheTTL(dataType, until)
    \/ \E kind \in {"prs", "issues", "closed-issues"}, until \in WriteUntils :
            CallCacheInterval(kind, [since |-> until - DAYS_IN_INTERVAL * SecondsPerDay,
                                     until |-> until])
    \/ \E startDate \in CallStarts, span \in CallSpans, n \in 1..MaxIntervalDays :
            CallGetDateIntervals(startDate, startDate + span, n)
    \/ \E quota \in AllQuotas : CallRateLimitGate(quota)

SpecCalls == InitCalls /\ [][NextCalls]_vars

-----------------------------------------------------------------------------
(* SpecRetry: one call of retryWithBackoff *)

\* the ceiling of attempts handed to retryWithBackoff
MaxRetryCeiling == 3
BaseDelays == {1000, 3000}

\* what operation() throws: an HTTP status (0: none), a code, a type
Failure(status, code, type) == [ok |-> FALSE, status |-> status, code |-> code, type |-> type]
Success == [ok |-> TRUE, status |-> 0, code |-> "", type |-> ""]
Failures ==
    {Failure(status, "", "") : status \in {403, 429, 500, 502, 503, 504}}
        \cup {Failure(0, code, "system") :
                code \in {"ECONNRESET", "ETIMEDOUT", "ERR_STREAM_PREMATURE_CLOSE", "ENOTFOUND"}}
        \cup {Failure(0, "", "")}

\* const isRetryableError = ...
IsRetryableError(error) ==
    \/ error.code \in {"ERR_STREAM_PREMATURE_CLOSE", "ECONNRESET", "ETIMEDOUT"}
    \/ error.type = "system"
    \/ (error.status # 0 /\ error.status \in {502, 503, 504, 429})

RECURSIVE RetryLoop_SleepThenGiveUp(_, _, _, _, _)
\* a loop that waits after every failure and gives up only when the loop ends
RetryLoop_SleepThenGiveUp(outcomes, maxRetries, baseDelay, attempt, delays) ==
    IF attempt > maxRetries
        THEN [ok |-> FALSE, attempts |-> attempt - 1, delays |-> delays,
              settled |-> outcomes[attempt - 1]]
    ELSE IF outcomes[attempt].ok
        THEN [ok |-> TRUE, attempts |-> attempt, delays |-> delays,
              settled |-> outcomes[attempt]]
    ELSE RetryLoop_SleepThenGiveUp(outcomes, maxRetries, baseDelay, attempt + 1,
                                   Append(delays, baseDelay * 2 ^ (attempt - 1)))

RECURSIVE RetryLoop(_, _, _, _, _)
\* the for loop of retryWithBackoff from `attempt` on; outcomes[i] is what the
\* i-th call of operation() does, delays the waits made so far; `settled` is
\* what the promise resolves to or rejects with
RetryLoop(outcomes, maxRetries, baseDelay, attempt, delays) ==
    IF attempt > maxRetries
        THEN [ok |-> FALSE, attempts |-> attempt - 1, delays |-> delays,
              settled |-> outcomes[attempt - 1]]
    ELSE IF outcomes[attempt].ok
        THEN [ok |-> TRUE, attempts |-> attempt, delays |-> delays,
              settled |-> outcomes[attempt]]
    ELSE IF ~IsRetryableError(outcomes[attempt]) \/ attempt = maxRetries
        THEN [ok |-> FALSE, attempts |-> attempt, delays |-> delays,
              settled |-> outcomes[attempt]]
    ELSE RetryLoop(outcomes, maxRetries, baseDelay, attempt + 1,
                   Append(delays, baseDelay * 2 ^ (attempt - 1)))

\* retryWithBackoff(operation, maxRetries, baseDelay)
RetryWithBackoff(outcomes, maxRetries, baseDelay) ==
    RetryLoop(outcomes, maxRetries, baseDelay, 1, <<>>)

InitRetry ==
    /\ now = RunTime
    /\ db = [t \in Tables |-> EmptyTable]
    /\ ret = Call("none", <<>>, <<>>)
    /\ lastSet = [k \in StoreKeys |-> NeverSet]
    /\ flags = NoFlags
    /\ prior = "none"
    /\ ProcessStart

\* await retryWithBackoff(operation, maxRetries, baseDelay), where the i-th
\* call of operation() does outcomes[i]
CallRetryWithBackoff(outcomes, maxRetries, baseDelay) ==
    /\ pc = "idle"
    /\ pc' = "done"
    /\ ret' = Call("retryWithBackoff", <<outcomes, maxRetries, baseDelay>>,
                   RetryWithBackoff(outcomes, maxRetries, baseDelay))
    /\ UNCHANGED <<now, db, lastSet, flags, mem, closed, cur, work, errorStats, prior, last>>

NextRetry ==
    \E maxRetries \in 1..MaxRetryCeiling, baseDelay \in BaseDelays :
        \E outcomes \in [1..maxRetries -> Failures \cup {Success}] :
            CallRetryWithBackoff(outcomes, maxRetries, baseDelay)

SpecRetry == InitRetry /\ [][NextRetry]_vars

-----------------------------------------------------------------------------
(* SpecAggregate: the pull-request part of one call of                      *)
(* aggregateMetricsByDateRange, over pull requests whose reviews carry no   *)
(* review threads and with no commits                                       *)

MaxPRs == 2
MaxReviews == 1

\* a login: its letters in lowercase, and whether it holds an uppercase letter
Login(name, upper) == [name |-> name, upper |-> upper]
ToLowerCase(login) == Login(login.name, FALSE)
\* what `user?.login` yields for a deleted account
NoLogin == Login("", FALSE)
\* the default of `pr.user?.login || "Unknown"`
Unknown == Login("unknown", TRUE)
LoginOrUnknown(login) == IF login = NoLogin THEN Unknown ELSE login

BLACKLISTED_CODE_USERS ==
    {"waqas", "fullstack900", "ghost", "dependabot[bot]", "unknown", "kaikrmen",
     "metalmagno", "aovallegalan", "shedeed1", "snyk-bot", "amlingad",
     "brennenhamilton", "copilot-pull-request-reviewer"}
EXCLUDED_FROM_RANKINGS ==
    {"yamilachan", "edwardzabalaf", "github-actions", "github-actions[bot]",
     "esteban199", "copilot", "copilot-swe-agent"}
AUTHOR_ALIAS_MAP ==
    [n \in {"yeferson hidalgo", "jonathan miles", "leonel lima", "raul gomez",
            "ronny legones"} |->
        CASE n = "yeferson hidalgo" -> "memimint"
          [] n = "jonathan miles" -> "jonmiles"
          [] n = "leonel lima" -> "leonellima"
          [] n = "raul gomez" -> "ragomez33"
          [] n = "ronny legones" -> "rojolelo"]

\* Set.has(login): the set holds lowercase text only
SetHas(set, login) == ~login.upper /\ login.name \in set

\* the logins the search API and the review query answer with
AnswerLogins == {Login("ann", FALSE), Login("bob", FALSE), NoLogin}
ReviewStates == {"APPROVED", "CHANGES_REQUESTED"}
Reviews == [author : AnswerLogins, state : ReviewStates]
PullRequests ==
    [user : AnswerLogins, reviews : UNION {[1..n -> Reviews] : n \in 0..MaxReviews}]

ZeroMetrics == [commits |-> 0, pullRequests |-> 0, reviews |-> 0, rejections |-> 0, score |-> 0]

\* rawUserMetrics[user] = rawUserMetrics[user] || {...}
OrZero(raw, user) == IF user \in DOMAIN raw THEN raw ELSE MapSet(raw, user, ZeroMetrics)

\* rawUserMetrics[author].rejections += 1
RejectionOwner(author, reviewer) == author

\* the body of reviews.forEach for one review of a pull request by `author`
CountReview(raw, author, review) ==
    LET reviewer == LoginOrUnknown(review.author)
        r1 == OrZero(raw, reviewer)
        r2 == [r1 EXCEPT ![reviewer].reviews = @ + 1]
        r3 == IF review.state = "CHANGES_REQUESTED"
                THEN [r2 EXCEPT ![RejectionOwner(author, reviewer)].rejections = @ + 1]
                ELSE r2
    IN [r3 EXCEPT ![reviewer].score = @ + 1]

RECURSIVE CountReviews(_, _, _, _)
CountReviews(raw, author, reviews, i) ==
    IF i > Len(reviews) THEN raw
    ELSE CountReviews(CountReview(raw, author, reviews[i]), author, reviews, i + 1)

\* the body of `for (const pr of pullRequests)`
CountPullRequest(raw, pr) ==
    LET author == LoginOrUnknown(pr.user)
        r1 == OrZero(raw, author)
        r2 == [r1 EXCEPT ![author].pullRequests = @ + 1]
    IN CountReviews(r2, author, pr.reviews, 1)

RECURSIVE CountPullRequests(_, _, _)
CountPullRequests(raw, pullRequests, i) ==
    IF i > Len(pullRequests) THEN raw
    ELSE CountPullRequests(CountPullRequest(raw, pullRequests[i]), pullRequests, i + 1)

\* the login an entry of rawUserMetrics is filed under
RealAuthor(author) ==
    LET normalizedAuthor == ToLowerCase(author)
    IN IF normalizedAuthor.name \in DOMAIN AUTHOR_ALIAS_MAP
        THEN Login(AUTHOR_ALIAS_MAP[normalizedAuthor.name], FALSE)
        ELSE normalizedAuthor

\* the entries of rawUserMetrics the merge does not return from
Merged(raw) ==
    {author \in DOMAIN raw :
        /\ ~SetHas(BLACKLISTED_CODE_USERS, author)
        /\ ~SetHas(EXCLUDED_FROM_RANKINGS, ToLowerCase(author))}

RECURSIVE SumMetrics(_, _, _)
SumMetrics(raw, authors, acc) ==
    IF authors = {} THEN acc
    ELSE LET a == CHOOSE x \in authors : TRUE
         IN SumMetrics(raw, authors \ {a},
                       [f \in DOMAIN acc |-> acc[f] + raw[a][f]])

\* Object.entries(rawUserMetrics).forEach(...) building mergedUserMetrics
MergeUserMetrics(raw) ==
    [realAuthor \in {RealAuthor(a) : a \in Merged(raw)} |->
        SumMetrics(raw, {a \in Merged(raw) : RealAuthor(a) = realAuthor}, ZeroMetrics)]

AggregateMetricsByDateRange(pullRequests) ==
    MergeUserMetrics(CountPullRequests(<<>>, pullRequests, 1))

InitAggregate ==
    /\ now = RunTime
    /\ db = [t \in Tables |-> EmptyTable]
    /\ ret = Call("none", <<>>, <<>>)
    /\ lastSet = [k \in StoreKeys |-> NeverSet]
    /\ flags = NoFlags
    /\ prior = "none"
    /\ ProcessStart

\* await aggregateMetricsByDateRange(...), the search and the review queries
\* answering with pullRequests
CallAggregateMetricsByDateRange(pullRequests) ==
    /\ pc = "idle"
    /\ pc' = "done"
    /\ ret' = Call("aggregateMetricsByDateRange", pullRequests,
                   AggregateMetricsByDateRange(pullRequests))
    /\ UNCHANGED <<now, db, lastSet, flags, mem, closed, cur, work, errorStats, prior, last>>

NextAggregate ==
    \E n \in 0..MaxPRs : \E pullRequests \in [1..n -> PullRequests] :
        CallAggregateMetricsByDateRange(pullRequests)

SpecAggregate == InitAggregate /\ [][NextAggregate]_vars

-----------------------------------------------------------------------------
(* SpecKeys: the cache keys the fetchers build, as the text the template    *)
(* literals produce; a text is the sequence of its character codes, with    *)
(* the fields of an ISO instant kept as in ToISOString                      *)

MaxKeyNumber == 12

\* '-', the separator of the template literals
CharHyphen == 45
\* '0'
CharZero == 48
Hyphen == <<CharHyphen>>

RECURSIVE NumberText(_)
\* `${n}` for a number n >= 0: its decimal digits
NumberText(n) ==
    IF n < 10 THEN <<CharZero + n>>
    ELSE NumberText(n \div 10) \o <<CharZero + (n % 10)>>

\* "acme"
KeyOwner == <<97, 99, 109, 101>>
\* "web", "web-1", "web1", "web-issue-1-events"
KeyRepos ==
    {<<119, 101, 98>>,
     <<119, 101, 98>> \o Hyphen \o NumberText(1),
     <<119, 101, 98>> \o NumberText(1),
     <<119, 101, 98>> \o Hyphen \o <<105, 115, 115, 117, 101>> \o Hyphen \o NumberText(1)
        \o Hyphen \o <<101, 118, 101, 110, 116, 115>>}
\* the instants getDateIntervals and generateReport hand to the fetchers
KeyInstants ==
    {d * SecondsPerDay + 10 * SecondsPerHour : d \in {9, 14, 19}}
KeyIntervals ==
    {iv \in [since : KeyInstants, until : KeyInstants] : iv.since < iv.until}

\* `${repoOwner}-prs-${since}-${until}`
PrsCacheKey(repoOwner, since, until) ==
    repoOwner \o Hyphen \o <<112, 114, 115>> \o Hyphen \o since \o Hyphen \o until
\* `${repoOwner}-issues-${since}-${until}`
IssuesCacheKey(repoOwner, since, until) ==
    repoOwner \o Hyphen \o <<105, 115, 115, 117, 101, 115>> \o Hyphen \o since \o Hyphen \o until
\* `${repoOwner}-closed-issues-${since}-${until}`
ClosedIssuesCacheKey(repoOwner, since, until) ==
    repoOwner \o Hyphen \o <<99, 108, 111, 115, 101, 100>> \o Hyphen \o <<105, 115, 115, 117, 101, 115>> \o Hyphen \o since \o Hyphen \o until
\* a key of the reviews that puts nothing between its parts
ReviewsCacheKey_NoSeparator(repoOwner, repoName, prNumber) ==
    repoOwner \o repoName \o NumberText(prNumber)
\* `${repoOwner}-${repoName}-${prNumber}`
ReviewsCacheKey(repoOwner, repoName, prNumber) ==
    repoOwner \o Hyphen \o repoName \o Hyphen \o NumberText(prNumber)
\* `${repoOwner}-${repository}-${since}-${until}`
CommitsCacheKey(repoOwner, repository, since, until) ==
    repoOwner \o Hyphen \o repository \o Hyphen \o since \o Hyphen \o until
\* `${repoOwner}-${repoName}-issue-${issueNumber}-events`
EventsCacheKey(repoOwner, repoName, issueNumber) ==
    repoOwner \o Hyphen \o repoName \o Hyphen \o <<105, 115, 115, 117, 101>> \o Hyphen
        \o NumberText(issueNumber) \o Hyphen \o <<101, 118, 101, 110, 116, 115>>

\* a fetch unit: its kind and the arguments that tell it from the other
\* units of its kind (the fields a kind does not use are empty)
FetchUnit(kind, repo, number, iv) == [kind |-> kind, repo |-> repo, number |-> number, iv |-> iv]
NoInterval == [since |-> 0, until |-> 0]
FetchUnits ==
    {FetchUnit(kind, <<>>, 0, iv) : kind \in {"prs", "issues", "closed-issues"}, iv \in KeyIntervals}
        \cup {FetchUnit("commits", repo, 0, iv) : repo \in KeyRepos, iv \in KeyIntervals}
        \cup {FetchUnit(kind, repo, n, NoInterval) :
                kind \in {"reviews", "events"}, repo \in KeyRepos, n \in 1..MaxKeyNumber}

\* the cacheKey the fetcher of a unit builds
CacheKeyOf(unit) ==
    LET since == ToISOString(unit.iv.since)
        until == ToISOString(unit.iv.until)
    IN CASE unit.kind = "prs" -> PrsCacheKey(KeyOwner, since, until)
         [] unit.kind = "issues" -> IssuesCacheKey(KeyOwner, since, until)
         [] unit.kind = "closed-issues" -> ClosedIssuesCacheKey(KeyOwner, since, until)
         [] unit.kind = "commits" -> CommitsCacheKey(KeyOwner, unit.repo, since, until)
         [] unit.kind = "reviews" -> ReviewsCacheKey(KeyOwner, unit.repo, unit.number)
         [] unit.kind = "events" -> EventsCacheKey(KeyOwner, unit.repo, unit.number)

\* a key that was built: the unit, the table it is used on, the text
BuiltKey(unit) == [unit |-> unit, table |-> TableOf(unit.kind), key |-> CacheKeyOf(unit)]
NoKey == [unit |-> FetchUnit("none", <<>>, 0, NoInterval), table |-> "none", key |-> <<>>]

InitKeys ==
    /\ now = RunTime
    /\ db = [t \in Tables |-> EmptyTable]
    /\ ret = NoKey
    /\ lastSet = [k \in StoreKeys |-> NeverSet]
    /\ flags = NoFlags
    /\ prior = "none"
    /\ mem = [t \in Tables |-> EmptyTable]
    /\ closed = NotClosed
    /\ pc = "idle"
    /\ cur = NoKey
    /\ work = NoWork
    /\ errorStats = [skippedPRs |-> 0, cachedFallbackPRs |-> 0]
    /\ last = NoLast

\* a fetcher builds the cacheKey of a unit; ret is that key, cur the key
\* built before it
BuildCacheKey(unit) ==
    /\ cur' = ret
    /\ ret' = BuiltKey(unit)
    /\ UNCHANGED <<now, db, lastSet, flags, mem, closed, pc, work, errorStats, prior, last>>

NextKeys == \E unit \in FetchUnits : BuildCacheKey(unit)

SpecKeys == InitKeys /\ [][NextKeys]_vars

-----------------------------------------------------------------------------
(* SpecAgain: one interval of an interval fetcher requested several times,  *)
(* with force-refresh and offline mode off                                  *)

MaxRequests == 2

\* the time that passes before a request: a minute, four hours, seven hours
RequestDelays == {60, 4 * SecondsPerHour, 7 * SecondsPerHour}

\* no successful fetch of the interval so far
NotFetched == [fetched |-> FALSE, perpetual |-> FALSE, deadline |-> 0]

InitAgain ==
    /\ now = RunTime
    /\ db = [t \in Tables |-> EmptyTable]
    /\ ret = Call("none", <<>>, <<>>)
    /\ lastSet = [k \in StoreKeys |-> NeverSet]
    /\ flags = NoFlags
    /\ prior = "none"
    /\ mem = [t \in Tables |-> EmptyTable]
    /\ closed = NotClosed
    /\ pc = "request"
    /\ \E kind \in {"prs", "issues", "closed-issues"}, i \in 1..Len(ReportIntervals(RunTime)) :
            cur = [kind |-> kind, iv |-> ReportIntervals(RunTime)[i], n |-> 0]
    /\ work = NotFetched
    /\ errorStats = [skippedPRs |-> 0, cachedFallbackPRs |-> 0]
    /\ last = [how |-> "none", net |-> FALSE, items |-> <<>>, covered |-> FALSE]

\* One turn of the for loop of an interval fetcher for the interval cur.iv,
\* `delay` after the turn before.  work remembers the last fetch that went
\* through (every page answered, the entry written if there was one to write)
\* and until when getSmartCacheTTL lets its entry live; last.covered tells
\* whether this request came after such a fetch and before that instant.
RequestInterval(delay, readErr, quota, script, writeErr) ==
    LET t == now + delay
        kind == cur.kind
        table == TableOf(kind)
        key == IntervalKey(kind, cur.iv)
        cachedResult == SQLiteGet(db[table], key, t, readErr)
        hit == /\ Truthy(cachedResult.val)
               /\ cachedResult.val.kind = "arr"
               /\ Len(cachedResult.val.xs) > 0
        fetched == SearchLoop(script, <<>>)
        interval == fetched.items
        smartTTL == GetSmartCacheTTL(cur.iv.until, SmartType(kind), t)
        covered == work.fetched /\ (work.perpetual \/ t < work.deadline)
        Done(how, net, items) ==
            last' = [how |-> how, net |-> net, items |-> items, covered |-> covered]
    IN
    /\ cur.n < MaxRequests
    /\ now' = t
    /\ cur' = [cur EXCEPT !.n = @ + 1]
    /\ IF ~cachedResult.ok THEN
            /\ Done("threw", FALSE, <<>>)
            /\ UNCHANGED <<db, mem, work>>
       ELSE IF hit THEN
            /\ Done("cache", FALSE, cachedResult.val.xs)
            /\ UNCHANGED <<db, mem, work>>
       ELSE IF ~RateLimitGate(CheckRateLimit(quota), t).proceed THEN
            /\ Done("skipped", TRUE, <<>>)
            /\ UNCHANGED <<db, mem, work>>
       ELSE IF interval = <<>> THEN
            /\ Done(IF fetched.failed THEN "failed" ELSE "network", TRUE, <<>>)
            /\ UNCHANGED <<db, mem>>
            /\ work' = IF fetched.failed THEN work
                       ELSE [fetched |-> TRUE, perpetual |-> smartTTL = 0,
                             deadline |-> t + smartTTL]
       ELSE
            /\ mem' = [mem EXCEPT ![table] = MapSet(@, key, JArr(interval))]
            /\ db' = [db EXCEPT ![table] = CacheInterval(@, kind, cur.iv, interval, t, writeErr)]
            /\ Done(IF writeErr THEN "threw" ELSE IF fetched.failed THEN "failed" ELSE "network",
                    TRUE, interval)
            /\ work' = IF writeErr \/ fetched.failed THEN work
                       ELSE [fetched |-> TRUE, perpetual |-> smartTTL = 0,
                             deadline |-> t + smartTTL]
    /\ UNCHANGED <<ret, lastSet, flags, closed, pc, errorStats, prior>>

NextAgain ==
    \E delay \in RequestDelays, readErr \in BOOLEAN, quota \in Quotas,
       script \in SearchScripts, writeErr \in BOOLEAN :
        RequestInterval(delay, readErr, quota, script, writeErr)

SpecAgain == InitAgain /\ [][NextAgain]_vars

-----------------------------------------------------------------------------
(* SpecServe: serve.ts, one process answering several requests, each of     *)
(* which runs generateReport on the cache singletons and the errorStats of  *)
(* the module.  A run yields at its awaits, so the runs interleave.  Each   *)
(* run fetches one PR interval and the reviews of the PR it finds.          *)

MaxRequestsServed == 2
ServedRuns == 1..MaxRequestsServed

\* the handle of a table was closed: sqlite3 fails every later statement
IsClosed(table) == closed[table] > 0

ServedInterval == ReportIntervals(RunTime)[1]
ServedPRsKey == IntervalKey("prs", ServedInterval)
ServedReviewsKey == ReviewsKey(RepoNames[1], 1)

\* the locals of a run that has not started, and the counts of its own units
NotStarted == [threw |-> FALSE, prs |-> <<>>, skipped |-> 0, fallback |-> 0,
               reported |-> [skippedPRs |-> 0, cachedFallbackPRs |-> 0]]
\* a run between its first statement and the end of its finally block
InProgress(p) == p \notin {"idle", "done", "exit"}

InitServe ==
    /\ now = RunTime
    /\ db = [t \in Tables |-> EmptyTable]
    /\ ret = Call("none", <<>>, <<>>)
    /\ lastSet = [k \in StoreKeys |-> NeverSet]
    /\ flags = NoFlags
    /\ prior = "none"
    /\ mem = [t \in Tables |-> EmptyTable]
    /\ closed = NotClosed
    /\ pc = [r \in ServedRuns |-> "idle"]
    /\ cur = [r \in ServedRuns |-> NotStarted]
    /\ work = NoWork
    /\ errorStats = [skippedPRs |-> 0, cachedFallbackPRs |-> 0]
    /\ last = [run |-> 0, op |-> "none", onClosed |-> {}]

serveFixed == <<now, ret, lastSet, flags, prior, work>>

\* run r goes on at `to`; the tables in onClosed had a statement issued on
\* their closed handle
ServeStep(r, to, op, onClosed) ==
    /\ pc' = [pc EXCEPT ![r] = to]
    /\ last' = [run |-> r, op |-> op, onClosed |-> onClosed]

\* the request arrives: generateReport resets the statistics and lists the
\* repositories
ServeStart(r, answer) ==
    /\ pc[r] = "idle"
    /\ \A q \in ServedRuns : pc[q] # "exit"
    /\ errorStats' = [skippedPRs |-> 0, cachedFallbackPRs |-> 0]
    /\ cur' = [cur EXCEPT ![r].threw = answer # "ok"]
    /\ ServeStep(r, IF answer = "ok" THEN "cleanup" ELSE "finally", "repos", {})
    /\ UNCHANGED <<db, mem, closed, serveFixed>>

\* cleanupAllCaches: a statement on every table, its error logged
ServeCleanup(r) ==
    /\ pc[r] = "cleanup"
    /\ db' = [t \in Tables |-> SQLiteCleanup(db[t], now, IsClosed(t))]
    /\ ServeStep(r, "preload", "cleanup", {t \in Tables : IsClosed(t)})
    /\ UNCHANGED <<mem, closed, cur, errorStats, serveFixed>>

\* preloadCacheForDateRange: preloadKey on prs_cache, then on issues_cache;
\* the first read that fails rejects the call
ServePreload(r) ==
    /\ pc[r] = "preload"
    /\ IF IsClosed("prs_cache")
          THEN /\ cur' = [cur EXCEPT ![r].threw = TRUE]
               /\ mem' = mem
               /\ ServeStep(r, "finally", "preload", {"prs_cache"})
          ELSE /\ mem' = [mem EXCEPT !["prs_cache"] =
                            PreloadKeys(@, db["prs_cache"], <<ServedPRsKey>>)]
               /\ cur' = [cur EXCEPT ![r].threw = IsClosed("issues_cache")]
               /\ ServeStep(r, IF IsClosed("issues_cache") THEN "finally" ELSE "prs",
                            "preload", {"issues_cache"} \cap {t \in Tables : IsClosed(t)})
    /\ UNCHANGED <<db, closed, errorStats, serveFixed>>

\* fetchPullRequestsInDateRange for the one interval: getAsync, on a miss the
\* search, setAsync when it found the PR
ServeFetchPRs(r, found) ==
    LET cachedResult == SQLiteGet(db["prs_cache"], ServedPRsKey, now, IsClosed("prs_cache"))
        hit == Truthy(cachedResult.val) /\ cachedResult.val.kind = "arr"
                    /\ Len(cachedResult.val.xs) > 0
    IN
    /\ pc[r] = "prs"
    /\ IF ~cachedResult.ok THEN
            /\ cur' = [cur EXCEPT ![r].threw = TRUE]
            /\ ServeStep(r, "finally", "prs", {"prs_cache"})
            /\ UNCHANGED <<db, mem>>
       ELSE IF hit THEN
            /\ cur' = [cur EXCEPT ![r].prs = cachedResult.val.xs]
            /\ ServeStep(r, "reviews", "prs", {})
            /\ UNCHANGED <<db, mem>>
       ELSE IF ~found THEN
            /\ cur' = cur
            /\ ServeStep(r, "summary", "prs", {})
            /\ UNCHANGED <<db, mem>>
       ELSE
            /\ mem' = [mem EXCEPT !["prs_cache"] = MapSet(@, ServedPRsKey, JArr(<<1>>))]
            /\ db' = [db EXCEPT !["prs_cache"] =
                        CacheInterval(@, "prs", ServedInterval, <<1>>, now, FALSE)]
            /\ cur' = [cur EXCEPT ![r].prs = <<1>>]
            /\ ServeStep(r, "reviews", "prs", {})
    /\ UNCHANGED <<closed, errorStats, serveFixed>>

\* fetchReviewsForPR for that PR: the memory, on a miss the query; when the
\* retries are used up the unit is counted and skipped
ServeFetchReviews(r, answered) ==
    LET cachedResult == CompatGet(mem["prs_review_cache"], ServedReviewsKey)
        reviewData == JObj(<<1>>)
    IN
    /\ pc[r] = "reviews"
    /\ IF Truthy(cachedResult) THEN
            /\ ServeStep(r, "summary", "reviews", {})
            /\ UNCHANGED <<db, mem, cur, errorStats>>
       ELSE IF ~answered THEN
            /\ errorStats' = [errorStats EXCEPT !.skippedPRs = @ + 1]
            /\ cur' = [cur EXCEPT ![r].skipped = @ + 1]
            /\ ServeStep(r, "summary", "reviews", {})
            /\ UNCHANGED <<db, mem>>
       ELSE
            /\ mem' = [mem EXCEPT !["prs_review_cache"] =
                            MapSet(@, ServedReviewsKey, reviewData)]
            /\ db' = [db EXCEPT !["prs_review_cache"] =
                        SQLiteSet(@, ServedReviewsKey, reviewData, REVIEWS_TTL_SECONDS, now,
                                  IsClosed("prs_review_cache"))]
            /\ cur' = [cur EXCEPT ![r].threw = IsClosed("prs_review_cache")]
            /\ errorStats' = errorStats
            /\ ServeStep(r, IF IsClosed("prs_review_cache") THEN "finally" ELSE "summary",
                         "reviews", {"prs_review_cache"} \cap {t \in Tables : IsClosed(t)})
    /\ UNCHANGED <<closed, serveFixed>>

\* the error summary at the end of the report reads the statistics
ServeSummary(r) ==
    /\ pc[r] = "summary"
    /\ cur' = [cur EXCEPT ![r].reported = errorStats]
    /\ ServeStep(r, "finally", "summary", {})
    /\ UNCHANGED <<db, mem, closed, errorStats, serveFixed>>

\* finally: closeAllCaches.  A run that threw rejects the promise the handler
\* of serve.ts awaits with nothing to catch it, which ends the process.
ServeCloseAllCaches(r) ==
    /\ pc[r] = "finally"
    /\ closed' = CloseAll(closed, {})
    /\ pc' = IF cur[r].threw THEN [q \in ServedRuns |-> "exit"]
             ELSE [pc EXCEPT ![r] = "done"]
    /\ last' = [run |-> r, op |-> "close", onClosed |-> {}]
    /\ UNCHANGED <<db, mem, cur, errorStats, serveFixed>>

NextServe ==
    \E r \in ServedRuns :
        \/ \E answer \in {"ok", "error"} : ServeStart(r, answer)
        \/ ServeCleanup(r)
        \/ ServePreload(r)
        \/ \E found \in BOOLEAN : ServeFetchPRs(r, found)
        \/ \E answered \in BOOLEAN : ServeFetchReviews(r, answered)
        \/ ServeSummary(r)
        \/ ServeCloseAllCaches(r)

SpecServe == InitServe /\ [][NextServe]_vars

-----------------------------------------------------------------------------
(* SpecCommits: one call of fetchCommitsInDateRange over two repositories *)

MaxOid == 2
MaxAdditions == 2
CommitsPerPage == 1
MaxCommitPages == 2

\* a commit node: its oid, and `additions` standing for the rest of its fields
Commits == [oid : 1..MaxOid, additions : 1..MaxAdditions]
CommitPages == UNION {[1..n -> Commits] : n \in 0..CommitsPerPage}
CommitRepos == << <<"web">>, <<"api">> >>

\* one response to the commits query: a page with hasNextPage true ("more")
\* or false ("end"), a response the loop drops to ask again ("limited": the
\* rate-limit header with a reset ahead, or a RATE_LIMITED error), another
\* GraphQL error ("error"), a repository without default branch ("nobranch")
CommitAnswers ==
    {Answer(type, items) : type \in {"more", "end"}, items \in CommitPages}
        \cup {Answer(type, <<>>) : type \in {"limited", "error", "nobranch"}}

RECURSIVE CommitsLoop(_, _)
\* the while (hasMore) loop of fetchCommits
CommitsLoop(script, allCommits) ==
    IF script = <<>> THEN [items |-> allCommits, end |-> "open", rest |-> <<>>]
    ELSE LET r == Head(script)
         IN CASE r.type = "limited" -> CommitsLoop(Tail(script), allCommits)
              [] r.type = "error" ->
                    [items |-> allCommits, end |-> "threw", rest |-> Tail(script)]
              [] r.type = "nobranch" ->
                    [items |-> <<>>, end |-> "nobranch", rest |-> Tail(script)]
              [] r.type = "more" -> CommitsLoop(Tail(script), allCommits \o r.items)
              [] OTHER ->
                    [items |-> allCommits \o r.items, end |-> "done", rest |-> Tail(script)]

\* the responses that take one fetchCommits exactly to its end
CommitScripts ==
    {sc \in Scripts(CommitAnswers, MaxCommitPages) :
        LET run == CommitsLoop(sc, <<>>)
        IN run.end # "open" /\ run.rest = <<>>}

RECURSIVE KeepFirstValues(_, _)
\* a map keyed by oid that keeps the value it saw first
KeepFirstValues(allCommits, acc) ==
    IF allCommits = <<>> THEN acc
    ELSE LET commit == Head(allCommits)
         IN KeepFirstValues(Tail(allCommits),
                IF \E i \in DOMAIN acc : acc[i].oid = commit.oid
                    THEN acc ELSE Append(acc, commit))

Deduplicate_KeepFirst(allCommits) == KeepFirstValues(allCommits, <<>>)

RECURSIVE MapValues(_, _)
\* allCommits.forEach(commit => map.set(commit.oid, commit)), then
\* Array.from(map.values()): a Map keeps a key at the place of its first
\* insertion and set replaces the value
MapValues(allCommits, acc) ==
    IF allCommits = <<>> THEN acc
    ELSE LET commit == Head(allCommits)
         IN MapValues(Tail(allCommits),
                IF \E i \in DOMAIN acc : acc[i].oid = commit.oid
                    THEN [i \in DOMAIN acc |->
                            IF acc[i].oid = commit.oid THEN commit ELSE acc[i]]
                    ELSE Append(acc, commit))

Deduplicate(allCommits) == MapValues(allCommits, <<>>)

InitCommits ==
    /\ now = RunTime
    /\ db = [t \in Tables |-> EmptyTable]
    /\ ret = Call("none", <<>>, <<>>)
    /\ lastSet = [k \in StoreKeys |-> NeverSet]
    /\ flags = NoFlags
    /\ prior = "none"
    /\ mem = [t \in Tables |-> EmptyTable]
    /\ closed = NotClosed
    /\ pc = "commits"
    /\ cur = [idx |-> 1, threw |-> FALSE]
    /\ work = [repos |-> CommitRepos, allCommits |-> <<>>]
    /\ errorStats = [skippedPRs |-> 0, cachedFallbackPRs |-> 0]
    /\ last = [scripts |-> <<>>]

\* one turn of the for loop of fetchCommitsInDateRange: fetchCommits for the
\* repository, and after the last repository the deduplication and the
\* return.  last.scripts keeps what the upstream answered (history).
FetchCommitsOfRepository(script, writeErr) ==
    LET key == CommitsKey(work.repos[cur.idx], now)
        cachedResult == CompatGet(mem["commits_cache"], key)
        run == CommitsLoop(script, <<>>)
        theseDatesCommits == <<>>
        hit == Truthy(cachedResult)
        commits == IF hit THEN cachedResult.xs ELSE run.items
        allCommits == work.allCommits \o commits
        scripts == Append(last.scripts, IF hit THEN <<>> ELSE script)
    IN
    /\ pc = "commits"
    /\ last' = [scripts |-> scripts]
    /\ IF ~hit /\ run.end = "done"
            THEN /\ mem' = [mem EXCEPT !["commits_cache"] =
                                MapSet(@, key, JArr(theseDatesCommits))]
                 /\ db' = [db EXCEPT !["commits_cache"] =
                                SQLiteSet(@, key, JArr(theseDatesCommits), TtlOmitted,
                                          now, writeErr)]
            ELSE UNCHANGED <<db, mem>>
    /\ IF ~hit /\ run.end = "threw"
            THEN /\ pc' = "done"
                 /\ ret' = Call("fetchCommitsInDateRange", scripts,
                                [ok |-> FALSE, val |-> <<>>])
                 /\ UNCHANGED <<cur, work>>
       ELSE IF cur.idx = Len(work.repos)
            THEN /\ pc' = "done"
                 /\ ret' = Call("fetchCommitsInDateRange", scripts,
                                [ok |-> TRUE, val |-> Deduplicate(allCommits)])
                 /\ work' = [work EXCEPT !.allCommits = allCommits]
                 /\ UNCHANGED cur
            ELSE /\ cur' = [cur EXCEPT !.idx = @ + 1]
                 /\ work' = [work EXCEPT !.allCommits = allCommits]
                 /\ UNCHANGED <<pc, ret>>
    /\ UNCHANGED <<now, lastSet, flags, prior, closed, errorStats>>

NextCommits ==
    \E script \in CommitScripts, writeErr \in BOOLEAN :
        FetchCommitsOfRepository(script, writeErr)

SpecCommits == InitCommits /\ [][NextCommits]_vars

-----------------------------------------------------------------------------
(* SpecLoops: the page loop of one fetch unit, one step per request and per *)
(* response: one PR interval of fetchPullRequestsInDateRange, or fetchCommits *)
(* for one repository                                                        *)

\* pages the upstream holds for the unit
MaxLoopPages == 2
\* records the upstream draws its pages from
MaxLoopRec == 2

LoopPageItems == UNION {[1..n -> 1..MaxLoopRec] : n \in 0..PerPage}
\* the reset instants the upstream names: one passed, one ahead
LoopResets == {RunTime - 60, RunTime + 60}
LoopInterval == ReportIntervals(RunTime)[1]
LoopRepo == RepoNames[1]

\* a response: its kind, the records of its page, whether its header
\* x-ratelimit-remaining is "0", and its header x-ratelimit-reset
Response(type, items, zero, reset) ==
    [type |-> type, items |-> items, zero |-> zero, reset |-> reset]
NoResponse == Response("none", <<>>, FALSE, 0)

\* what the search API may answer to the request for `page`: a page ("ok",
\* full only while the upstream holds more), HTTP 403, another failure
SearchResponses(page) ==
    {Response("ok", items, zero, reset) :
        items \in {x \in LoopPageItems : page = MaxLoopPages => Len(x) < PerPage},
        zero \in BOOLEAN, reset \in LoopResets}
    \cup {Response(type, <<>>, zero, reset) :
            type \in {"403", "error"}, zero \in BOOLEAN, reset \in LoopResets}

\* what the GraphQL API may answer to the commits query at the cursor `page`:
\* a page with hasNextPage ("more") or without ("end"), errors holding one
\* of type RATE_LIMITED ("limited"), other errors, no default branch
CommitResponses(page) ==
    {Response(type, items, zero, reset) :
        type \in {"end"} \cup (IF page < MaxLoopPages THEN {"more"} ELSE {}),
        items \in LoopPageItems, zero \in BOOLEAN, reset \in LoopResets}
    \cup {Response(type, <<>>, zero, reset) :
            type \in {"limited", "error", "nobranch"}, zero \in BOOLEAN, reset \in LoopResets}

\* await sleep(ms) / setTimeout: the clock when it returns
SleepUntil(t, reset) == IF reset > t THEN reset ELSE t

\* handleRateLimit(response): the clock afterwards
HandleRateLimit(response, t) ==
    IF response.zero THEN SleepUntil(t, response.reset) ELSE t

\* last: the result of the gate check of the unit ("none" before it), and
\* whether the handler of the response received last slept (history)
InitLoops ==
    /\ now = RunTime
    /\ db = [t \in Tables |-> EmptyTable]
    /\ ret = NoResponse
    /\ lastSet = [k \in StoreKeys |-> NeverSet]
    /\ flags = NoFlags
    /\ prior = "none"
    /\ mem = [t \in Tables |-> EmptyTable]
    /\ closed = NotClosed
    /\ \E loop \in {"search", "commits"} :
        /\ cur = [loop |-> loop, page |-> 1, threw |-> FALSE]
        /\ pc = IF loop = "search" THEN "gate" ELSE "ask"
    /\ work = <<>>
    /\ errorStats = [skippedPRs |-> 0, cachedFallbackPRs |-> 0]
    /\ last = [gate |-> "none", waited |-> FALSE]

\* const rateLimitStatus = await checkRateLimit(); if (!canMakeRequest) await
\* waitForRateLimit(resetTime); then let page = 1 and the loop
LoopCheckRateLimit(quota) ==
    LET rateLimitStatus == CheckRateLimit(quota)
        gate == RateLimitGate(rateLimitStatus, now)
    IN
    /\ pc = "gate"
    /\ now' = gate.at
    /\ pc' = IF gate.proceed THEN "ask" ELSE "done"
    /\ cur' = [cur EXCEPT !.page = gate.page]
    /\ last' = [gate |-> IF rateLimitStatus.canMakeRequest THEN "open" ELSE "closed",
                waited |-> ~rateLimitStatus.canMakeRequest]
    /\ UNCHANGED <<db, ret, lastSet, flags, prior, mem, closed, work, errorStats>>

\* the request of the turn of the loop goes out
LoopSendRequest ==
    /\ pc = "ask"
    /\ pc' = "answer"
    /\ ret' = NoResponse
    /\ UNCHANGED <<now, db, lastSet, flags, prior, mem, closed, cur, work, errorStats, last>>

\* the rest of the turn of the while loop of fetchPullRequestsInDateRange once
\* the response is there, and after the loop the write to the cache
LoopReceiveSearch(response, writeErr) ==
    LET intervalPRs == work \o response.items
        hasMore == Len(response.items) = PerPage
        over(items) ==
            IF items # <<>>
                THEN /\ mem' = [mem EXCEPT !["prs_cache"] =
                                    MapSet(@, IntervalKey("prs", LoopInterval), JArr(items))]
                     /\ db' = [db EXCEPT !["prs_cache"] =
                                    CacheInterval(@, "prs", LoopInterval, items, now', writeErr)]
                     /\ cur' = [cur EXCEPT !.threw = writeErr]
                ELSE UNCHANGED <<mem, db, cur>>
    IN
    /\ pc = "answer" /\ cur.loop = "search"
    /\ ret' = response
    /\ IF response.type = "ok" THEN
            /\ now' = HandleRateLimit(response, now)
            /\ last' = [last EXCEPT !.waited = response.zero]
            /\ work' = intervalPRs
            /\ IF hasMore
                  THEN /\ pc' = "ask"
                       /\ cur' = [cur EXCEPT !.page = @ + 1]
                       /\ UNCHANGED <<mem, db>>
                  ELSE /\ pc' = "done"
                       /\ over(intervalPRs)
       ELSE IF response.type = "403" THEN
            /\ now' = HandleRateLimit(response, now)
            /\ last' = [last EXCEPT !.waited = response.zero]
            /\ pc' = "ask"
            /\ UNCHANGED <<mem, db, cur, work>>
       ELSE
            /\ now' = now
            /\ last' = [last EXCEPT !.waited = FALSE]
            /\ pc' = "done"
            /\ work' = work
            /\ over(work)
    /\ UNCHANGED <<lastSet, flags, prior, closed, errorStats>>

\* the rest of the turn of the while loop of fetchCommits once the response
\* is there, and after the loop COMMITS_CACHE.set(cacheKey, theseDatesCommits)
LoopReceiveCommits(response, writeErr) ==
    LET theseDatesCommits == <<>>
        key == CommitsKey(LoopRepo, RunTime)
    IN
    /\ pc = "answer" /\ cur.loop = "commits"
    /\ ret' = response
    /\ IF response.zero /\ response.reset - now > 0 THEN
            /\ now' = SleepUntil(now, response.reset)
            /\ last' = [last EXCEPT !.waited = TRUE]
            /\ pc' = "ask"
            /\ UNCHANGED <<mem, db, cur, work>>
       ELSE
            /\ now' = now
            /\ last' = [last EXCEPT !.waited = FALSE]
            /\ CASE response.type = "limited" ->
                        /\ pc' = "ask"
                        /\ UNCHANGED <<mem, db, cur, work>>
                 [] response.type = "error" ->
                        /\ pc' = "done"
                        /\ cur' = [cur EXCEPT !.threw = TRUE]
                        /\ UNCHANGED <<mem, db, work>>
                 [] response.type = "nobranch" ->
                        /\ pc' = "done"
                        /\ work' = <<>>
                        /\ UNCHANGED <<mem, db, cur>>
                 [] response.type = "more" ->
                        /\ pc' = "ask"
                        /\ work' = work \o response.items
                        /\ cur' = [cur EXCEPT !.page = @ + 1]
                        /\ UNCHANGED <<mem, db>>
                 [] OTHER ->
                        /\ pc' = "done"
                        /\ work' = work \o response.items
                        /\ mem' = [mem EXCEPT !["commits_cache"] =
                                        MapSet(@, key, JArr(theseDatesCommits))]
                        /\ db' = [db EXCEPT !["commits_cache"] =
                                        SQLiteSet(@, key, JArr(theseDatesCommits), TtlOmitted,
                                                  now, writeErr)]
                        /\ cur' = cur
    /\ UNCHANGED <<lastSet, flags, prior, closed, errorStats>>

NextLoops ==
    \/ \E quota \in Quotas : LoopCheckRateLimit(quota)
    \/ LoopSendRequest
    \/ \E response \in SearchResponses(cur.page), writeErr \in BOOLEAN :
            LoopReceiveSearch(response, writeErr)
    \/ \E response \in CommitResponses(cur.page), writeErr \in BOOLEAN :
            LoopReceiveCommits(response, writeErr)

SpecLoops == InitLoops /\ [][NextLoops]_vars

\* the loop is never left waiting for its turn: every request that can go out
\* goes out and every response that is due arrives
SpecLoopsFair == SpecLoops /\ WF_vars(NextLoops)

-----------------------------------------------------------------------------
(* SpecMigrate: migrateSingleFile run on one legacy file and one table *)

MaxRuns == 2

MigrateTable == "prs_cache"
\* the keys a legacy file may hold, in the order Object.keys lists them
LegacyKeys == << <<"acme", "-", "k1">>, <<"acme", "-", "k2">> >>
LegacyKeySet == {LegacyKeys[i] : i \in DOMAIN LegacyKeys}
LegacyValues == {JNull, JArr(<<1, 2>>)}

\* disk-cache/<fileName>: absent, unreadable as JSON, JSON that is no object
\* (a number, null), or an object; data is what JSON.parse returns for it
LegacyFile(kind, data) == [kind |-> kind, data |-> data]
LegacyFiles ==
    {LegacyFile(kind, EmptyTable) : kind \in {"missing", "corrupt", "scalar"}}
        \cup {LegacyFile("object", data) :
                data \in UNION {[ks -> LegacyValues] : ks \in SUBSET LegacyKeySet}}
NoBackup == LegacyFile("missing", EmptyTable)

\* the MigrationResult migrateSingleFile starts from
NewResult == [keysTransferred |-> 0, errors |-> 0, success |-> FALSE]

\* a row an earlier report run left in the table, with an expiry
StaleRow == [value |-> JSONStringify(JArr(<<1>>)), expires_at |-> ToISOString(TODAY_TTL_SECONDS)]

\* a set written as a plain INSERT: a key that is present is a constraint error
MigrateSet_PlainInsert(table, key, value, t, err) ==
    IF err \/ key \in DOMAIN table THEN [table |-> table, ok |-> FALSE]
    ELSE [table |-> SQLiteSet(table, key, value, TtlOmitted, t, FALSE), ok |-> TRUE]

\* await cache.set(key, data[key]) inside its try: the table afterwards, and
\* whether the promise resolved
MigrateSet(table, key, value, t, err) ==
    [table |-> SQLiteSet(table, key, value, TtlOmitted, t, err), ok |-> ~err]

RECURSIVE MigrateKeys(_, _, _, _, _, _)
\* for (const key of keys) { try { await cache.set ... } catch { errors++ } }
MigrateKeys(keys, data, table, fails, t, result) ==
    IF keys = <<>> THEN [table |-> table, result |-> result]
    ELSE LET key == Head(keys)
             w == MigrateSet(table, key, data[key], t, key \in fails)
         IN MigrateKeys(Tail(keys), data, w.table, fails, t,
                IF w.ok THEN [result EXCEPT !.keysTransferred = @ + 1]
                        ELSE [result EXCEPT !.errors = @ + 1])

\* a migration that copies the file whatever the result
BackupWanted_Always(result) == TRUE

\* if (result.success && result.keysTransferred > 0)
BackupWanted(result) == result.success /\ result.keysTransferred > 0

\* migrateSingleFile(tableName, fileName) as a function of the file, the table
\* and what fails: initErr (cache.initialize rejects), fails (the keys whose
\* set rejects), copyErr (fs.copyFileSync throws)
MigrateSingleFile(file, backup, table, t, initErr, fails, copyErr) ==
    LET done(result, tbl, bak, copied) ==
            [result |-> result, table |-> tbl, backup |-> bak, copied |-> copied]
        caught(result) == [result EXCEPT !.errors = @ + 1]
    IN  IF file.kind = "missing" \/ file.kind = "scalar"
            THEN done([NewResult EXCEPT !.success = TRUE], table, backup, FALSE)
        ELSE IF file.kind = "corrupt" \/ initErr
            THEN done(caught(NewResult), table, backup, FALSE)
        ELSE LET keys == SelectSeq(LegacyKeys, LAMBDA k : k \in DOMAIN file.data)
                 loop == MigrateKeys(keys, file.data, table, fails, t, NewResult)
                 result == [loop.result EXCEPT !.success = (loop.result.errors = 0)]
             IN IF ~BackupWanted(result) THEN done(result, loop.table, backup, FALSE)
                ELSE IF copyErr THEN done(caught(result), loop.table, backup, FALSE)
                ELSE done(result, loop.table, file, TRUE)

\* last: the runs made so far, each with what failed in it, what it returned
\* and the table it left (history, read by no action)
InitMigrate ==
    /\ now = 0
    /\ \E stale \in BOOLEAN :
        db = [t \in Tables |->
                IF stale /\ t = MigrateTable
                    THEN [k \in {LegacyKeys[1]} |-> StaleRow] ELSE EmptyTable]
    /\ ret = Call("none", <<>>, <<>>)
    /\ lastSet = [k \in StoreKeys |-> NeverSet]
    /\ flags = NoFlags
    /\ prior = "none"
    /\ mem = [t \in Tables |-> EmptyTable]
    /\ closed = NotClosed
    /\ pc = "idle"
    /\ cur = NoUnit
    /\ \E file \in LegacyFiles : work = [file |-> file, backup |-> NoBackup]
    /\ errorStats = [skippedPRs |-> 0, cachedFallbackPRs |-> 0]
    /\ last = <<>>

\* one run of migrateSingleFile(MigrateTable, file)
RunMigrateSingleFile(initErr, fails, copyErr) ==
    LET m == MigrateSingleFile(work.file, work.backup, db[MigrateTable], now,
                               initErr, fails, copyErr)
    IN
    /\ cur.idx < MaxRuns
    /\ cur' = [cur EXCEPT !.idx = @ + 1]
    /\ db' = [db EXCEPT ![MigrateTable] = m.table]
    /\ work' = [file |-> work.file, backup |-> m.backup]
    /\ ret' = Call("migrateSingleFile", <<initErr, fails, copyErr>>, m.result)
    /\ last' = Append(last, [before |-> db, initErr |-> initErr, fails |-> fails,
                             copyErr |-> copyErr, result |-> m.result,
                             table |-> m.table, copied |-> m.copied])
    /\ UNCHANGED <<now, lastSet, flags, prior, mem, closed, pc, errorStats>>

\* await cache.get(key) on the table, some time after
MigrateGet(key) ==
    /\ ret' = Call("get", <<key>>, SQLiteGet(db[MigrateTable], key, now, FALSE))
    /\ UNCHANGED <<now, db, lastSet, fetchVars>>

MigrateTick ==
    /\ now + ClockStep <= MaxTime
    /\ now' = now + ClockStep
    /\ UNCHANGED <<db, ret, lastSet, fetchVars>>

NextMigrate ==
    \/ \E initErr \in BOOLEAN, fails \in SUBSET LegacyKeySet, copyErr \in BOOLEAN :
            RunMigrateSingleFile(initErr, fails, copyErr)
    \/ \E key \in LegacyKeySet : MigrateGet(key)
    \/ MigrateTick

SpecMigrate == InitMigrate /\ [][NextMigrate]_vars

-----------------------------------------------------------------------------
(* Claims about the page loops (checked under SpecLoops and SpecLoopsFair) *)

\* C26: whatever the upstream answers, the unit ends: its loop is left after
\* finitely many requests.
C26_UnitTerminates == <>(pc = "done")

\* the response tells that the rate limit is in force: HTTP 403, an error of
\* type RATE_LIMITED, or x-ratelimit-remaining = 0 with the reset still ahead
RateLimitSignal(response, t) ==
    \/ response.type \in {"403", "limited"}
    \/ response.zero /\ response.reset > t

HoldsPage(response) == response.type \in {"ok", "more", "end"}

\* C29: the handler of a response that carries a rate-limit signal waits, and
\* then either asks again for the same page or cursor with nothing added to
\* the result, or adds the page of the response and moves on; the page or
\* cursor moves on only in a step that appends the records of the response.
C29_SameRequestAfterWait ==
    [][pc = "answer" =>
        /\ RateLimitSignal(ret', now) =>
            /\ last'.waited
            /\ \/ pc' = "ask" /\ cur'.page = cur.page /\ work' = work
               \/ HoldsPage(ret') /\ work' = work \o ret'.items
        /\ cur'.page # cur.page =>
            /\ HoldsPage(ret')
            /\ work' = work \o ret'.items
            /\ cur'.page = cur.page + 1]_vars

\* C30: a search request is on its way only when the gate check made last for
\* the unit reported that a request is allowed.
C30_GateOpenAtRequest ==
    (cur.loop = "search" /\ pc = "answer") => last.gate = "open"

-----------------------------------------------------------------------------
(* Claims about the migration of legacy files (checked under SpecMigrate) *)

\* n: the keys of the legacy file
LegacyCount == Cardinality(DOMAIN work.file.data)

\* C21: for a legacy file with n keys, (a) a run in which nothing but per-key
\* writes failed returns keysTransferred + errors = n, (b) every run returns
\* success = TRUE exactly when it returns errors = 0, and (c) once a run has
\* returned errors = 0, get of each of the n keys returns the value of the
\* file, now and at every later instant.
C21_MigrationCounts ==
    /\ \A i \in DOMAIN last :
        LET r == last[i]
        IN /\ (work.file.kind = "object" /\ ~r.initErr /\ ~r.copyErr)
                => r.result.keysTransferred + r.result.errors = LegacyCount
           /\ r.result.success <=> (r.result.errors = 0)
    /\ (work.file.kind = "object" /\ \E i \in DOMAIN last : last[i].result.errors = 0)
            => \A key \in DOMAIN work.file.data :
                    SQLiteGet(db[MigrateTable], key, now, FALSE) = Resolved(work.file.data[key])

\* C22: when a run of migrateSingleFile is followed by another on the same
\* file that meets the same failures, the second leaves the table with the
\* keys and values the first left and returns the same keysTransferred and
\* errors.
C22_MigrationIdempotent ==
    \A i \in DOMAIN last :
        (/\ i + 1 \in DOMAIN last
         /\ last[i + 1].initErr = last[i].initErr
         /\ last[i + 1].fails = last[i].fails
         /\ last[i + 1].copyErr = last[i].copyErr)
            => /\ last[i + 1].table = last[i].table
               /\ last[i + 1].result.keysTransferred = last[i].result.keysTransferred
               /\ last[i + 1].result.errors = last[i].result.errors

\* C22 witness: two runs without failure on a file of two keys, into a table
\* that held a row with an expiry under one of the keys.
C22_Witness ==
    /\ Len(last) = 2
    /\ last[1].before[MigrateTable] # EmptyTable
    /\ \A i \in DOMAIN last :
            last[i].result = [keysTransferred |-> Len(LegacyKeys), errors |-> 0, success |-> TRUE]

\* C23: no step changes the legacy file; a run that finds no file returns
\* success with no key transferred and no error, and leaves every table and
\* the backup as they were; the file is copied to .backup only by a run that
\* returns success with at least one key transferred.
C23_SourceUntouched ==
    [][LET ran == cur'.idx # cur.idx
       IN /\ work'.file = work.file
          /\ ~ran => (work'.backup = work.backup /\ db' = db)
          /\ (ran /\ work.file.kind = "missing")
                => /\ ret'.out = [keysTransferred |-> 0, errors |-> 0, success |-> TRUE]
                   /\ db' = db
                   /\ work'.backup = work.backup
          /\ (ran /\ (last'[Len(last')].copied \/ work'.backup # work.backup))
                => /\ ret'.out.success
                   /\ ret'.out.keysTransferred > 0]_vars

\* C23 witness: a run that failed on a key made no copy, and the next run,
\* which succeeded, made the copy of the file.
C23_Witness ==
    /\ Len(last) = 2
    /\ last[1].result.errors > 0 /\ ~last[1].copied
    /\ last[2].copied
    /\ work.backup = work.file

-----------------------------------------------------------------------------
(* Claims about SQLiteCache (checked under SpecStore) *)

\* C1 (as claimed): after set(k, v, ttl) with ttl > 0 at time t and no later
\* write to k, get(k) returns v strictly before t + ttl and a miss at or after
\* t + ttl.
C1_TtlExpiry ==
    \A k \in StoreKeys :
        (lastSet[k].live /\ lastSet[k].deadline > 0) =>
            /\ now < lastSet[k].deadline => GetNow(k) = lastSet[k].val
            /\ now >= lastSet[k].deadline => GetNow(k) = JUndefined

\* C9: set(k, v) followed immediately by get(k) returns a value deep-equal
\* to v.
C9_SetThenGet ==
    (ret.op = "get" /\ ret.ok /\ ret.imm) => ret.val = lastSet[ret.key].val

C9_Witness ==
    /\ ret.op = "get" /\ ret.ok /\ ret.imm
    /\ ret.val = JArr(<<1, 2>>)

\* C10: after set(k, v) with ttlSeconds omitted or 0, get(k) returns v at
\* every later time, whatever time passes and however often cleanup() runs,
\* until k is overwritten, deleted or cleared.
C10_Perpetual ==
    \A k \in StoreKeys :
        (lastSet[k].live /\ lastSet[k].ttl \in {TtlOmitted, 0}) =>
            GetNow(k) = lastSet[k].val

C10_Witness ==
    /\ now >= SecondsPerDay
    /\ ret.op = "cleanup" /\ ret.ok
    /\ \E k \in StoreKeys :
           /\ lastSet[k].live /\ lastSet[k].ttl = 0
           /\ lastSet[k].val = JArr(<<1, 2>>)
           /\ GetNow(k) = JArr(<<1, 2>>)
    /\ \E k \in StoreKeys :
           /\ lastSet[k].live /\ lastSet[k].ttl = TtlOmitted
           /\ GetNow(k) = lastSet[k].val

\* C11: set is an upsert.  Whatever was stored for k before, after a successful
\* set(k, v2, t2) the one row of k holds v2, its expiry comes from t2 alone
\* (none when t2 is omitted or 0, even over a row that had an expiry), and a get
\* at that instant yields v2.
C11_Upsert ==
    (ret.op = "set" /\ ret.ok)
        => /\ ret.key \in DOMAIN db[StoreTable]
           /\ db[StoreTable][ret.key].value = JSONStringify(lastSet[ret.key].val)
           /\ db[StoreTable][ret.key].expires_at =
                  (IF lastSet[ret.key].ttl \in {TtlOmitted, 0} THEN SqlNull
                   ELSE ToISOString(now + lastSet[ret.key].ttl))
           /\ GetNow(ret.key) = lastSet[ret.key].val

\* a set without ttl has just replaced a row that carried an expiry
C11_Witness ==
    /\ ret.op = "set" /\ ret.ok /\ ret.over
    /\ lastSet[ret.key].ttl \in {TtlOmitted, 0}
    /\ db[StoreTable][ret.key].expires_at = SqlNull

\* C12: a set, delete, clear or cleanup made on the cache of one dataset leaves
\* the rows of the four other tables as they were.
C12_TableIsolation ==
    [][\A t \in Tables : t # ret'.table => db'[t] = db[t]]_vars

\* one table has just been emptied by clear or swept by cleanup while another
\* table holds a row
C12_Witness ==
    /\ ret.op \in {"clear", "cleanup"} /\ ret.ok
    /\ db[ret.table] = EmptyTable
    /\ \E t \in Tables \ {ret.table} : TableKey \in DOMAIN db[t]

\* C13: cleanup removes exactly the rows whose expiry is set and has passed:
\* after a successful cleanup a key has a row if and only if it was set, not
\* deleted since, and its time to live is unlimited or has not run out.
C13_CleanupExact ==
    (ret.op = "cleanup" /\ ret.ok)
        => \A k \in StoreKeys :
              k \in DOMAIN db[StoreTable]
                  <=> (lastSet[k].live
                         /\ (lastSet[k].deadline = 0 \/ now < lastSet[k].deadline))

-----------------------------------------------------------------------------
(* Claims about the helpers of the fetchers (checked under SpecCalls) *)

\* daysAgo of getSmartCacheTTL for the call that returned last
DaysAgo == (now - ret.args[2]) \div SecondsPerDay

LadderTtl(until, t) ==
    LET daysAgo == (t - until) \div SecondsPerDay
    IN IF daysAgo > 7 THEN 0 ELSE IF daysAgo > 0 THEN 21600 ELSE 10800

C17_IntervalsTile ==
    (ret.op = "getDateIntervals" /\ ret.args[1] < ret.args[2])
        => LET out == ret.out.intervals
           IN /\ Len(out) >= 1
              /\ out[1].since = ret.args[1]
              /\ out[Len(out)].until = ret.args[2]
              /\ \A i \in 1..(Len(out) - 1) : out[i].until = out[i + 1].since
              /\ \A i \in 1..Len(out) :
                    /\ out[i].since < out[i].until
                    /\ out[i].until - out[i].since <= ret.args[3] * SecondsPerDay

\* C38: getDateIntervals leaves the Date objects handed to it as they were:
\* after the call startDate and endDate hold the instants they held before.
C38_ArgumentsUnchanged ==
    ret.op = "getDateIntervals"
        => (ret.out.startDate = ret.args[1] /\ ret.out.endDate = ret.args[2])

\* C19: when rateLimit.get answers, checkRateLimit reports canMakeRequest =
\* false, together with the reset instant, exactly when 5 or fewer search
\* requests remain; then the fetcher goes on no earlier than the reset
\* instant, with page 1 of the interval at hand.  Otherwise it reports true
\* and the fetcher goes on at once.
C19_QuotaGate ==
    (ret.op = "rateLimitGate" /\ ret.args.ok)
        => /\ ~ret.out.status.canMakeRequest <=> ret.args.remaining <= 5
           /\ ~ret.out.status.canMakeRequest
                 => /\ ret.out.status.resetTime = ret.args.reset
                    /\ ret.out.gate.proceed
                    /\ ret.out.gate.at >= ret.args.reset
                    /\ ret.out.gate.at >= ret.out.calledAt
                    /\ now = ret.out.gate.at
                    /\ ret.out.gate.page = 1
           /\ ret.out.status.canMakeRequest
                 => /\ ret.out.status.resetTime = NoResetTime
                    /\ ret.out.gate.proceed
                    /\ ret.out.gate.at = ret.out.calledAt

\* exactly 5 requests remained and the reset lay ahead: the fetcher waited
C19_Witness ==
    /\ ret.op = "rateLimitGate" /\ ret.args.ok
    /\ ret.args.remaining = 5
    /\ ret.args.reset > ret.out.calledAt
    /\ now = ret.args.reset

\* C20: when rateLimit.get itself fails, checkRateLimit reports canMakeRequest
\* = true and the fetch unit goes on to the network at once: it is neither
\* held back nor skipped.
C20_QuotaFailOpen ==
    (ret.op = "rateLimitGate" /\ ~ret.args.ok)
        => /\ ret.out.status.canMakeRequest
           /\ ret.out.gate.proceed
           /\ ret.out.gate.at = ret.out.calledAt
           /\ now = ret.out.calledAt

\* the quota call has just failed and the fetcher went on
C20_Witness ==
    /\ ret.op = "rateLimitGate" /\ ~ret.args.ok
    /\ ret.out.gate.proceed

-----------------------------------------------------------------------------
(* Claims about fetchCommitsInDateRange (checked under SpecCommits) *)

RECURSIVE PagesOf(_)
\* the commits of the pages of one upstream sequence, in the order received
PagesOf(script) ==
    IF script = <<>> THEN <<>>
    ELSE (IF Head(script).type \in {"more", "end"} THEN Head(script).items ELSE <<>>)
            \o PagesOf(Tail(script))

RECURSIVE AllPages(_)
AllPages(scripts) ==
    IF scripts = <<>> THEN <<>> ELSE PagesOf(Head(scripts)) \o AllPages(Tail(scripts))

\* fetchCommitsInDateRange returned, and the sequence of every repository
\* ended with a page whose hasNextPage is false
CommitsReturned ==
    /\ pc = "done"
    /\ ret.op = "fetchCommitsInDateRange"
    /\ ret.out.ok
    /\ Len(ret.args) = Len(CommitRepos)
    /\ \A r \in DOMAIN ret.args :
            ret.args[r] # <<>> /\ ret.args[r][Len(ret.args[r])].type = "end"

\* C18: when the page sequence of every repository ends with hasNextPage =
\* false, the result of fetchCommitsInDateRange holds one record for each oid
\* that occurs on any page of any repository and none for any other oid, and
\* the record it holds for an oid is the one received last with that oid.
C18_CommitsOnceLastSeen ==
    CommitsReturned =>
        LET seen == AllPages(ret.args)
            out == ret.out.val
        IN /\ \A c \in Commits :
                Cardinality({i \in DOMAIN out : out[i].oid = c.oid})
                    = IF \E j \in DOMAIN seen : seen[j].oid = c.oid THEN 1 ELSE 0
           /\ \A i \in DOMAIN out :
                \E j \in DOMAIN seen :
                    /\ seen[j] = out[i]
                    /\ \A k \in DOMAIN seen : k > j => seen[k].oid # out[i].oid

\* C18 witness: two repositories answered with two pages each, an oid came
\* twice with different records and the result holds two commits.
C18_Witness ==
    /\ CommitsReturned
    /\ \A r \in DOMAIN ret.args : Len(ret.args[r]) = MaxCommitPages
    /\ Len(ret.out.val) = 2
    /\ LET seen == AllPages(ret.args)
       IN \E j, k \in DOMAIN seen :
            j < k /\ seen[j].oid = seen[k].oid /\ seen[j] # seen[k]

-----------------------------------------------------------------------------
(* Claims about one invocation of generateReport (checked under Spec) *)

\* C24: when generateReport has exited, by return or by throw, close() was
\* called exactly once on the handle of each of the five tables, also when
\* closing some of the handles failed; before the exit it was called on none.
C24_ClosedOnce ==
    /\ pc = "exited" => \A t \in Tables : closed[t] = 1
    /\ pc # "exited" => \A t \in Tables : closed[t] = 0

\* C24 witness: generateReport exited by a throw and closing a handle failed.
C24_Witness ==
    /\ pc = "exited"
    /\ cur.threw
    /\ last.kind = "close" /\ last.cause = "close"
    /\ \A t \in Tables : closed[t] = 1

\* a unit that ended without data of its own: nothing in the cache in offline
\* mode, the quota gate closed, or the upstream failing before any record
UnitSkipped(o) ==
    /\ o.kind \in {"commits", "prs", "issues", "events", "reviews", "closed-issues"}
    /\ o.how \in {"offline", "failed"}
    /\ o.result = <<>>

\* C25: the step that starts generateReport leaves both counters at 0, and each
\* step that runs a fetch unit adds 1 to skippedPRs exactly when the unit was
\* skipped and 1 to cachedFallbackPRs exactly when the unit was answered from
\* the cache after its requests failed, so that at the end of the run the
\* counters are the numbers of such units in this run; no other step changes
\* the counters.
C25_CountersPerRun ==
    [][/\ pc = "idle" => (errorStats'.skippedPRs = 0 /\ errorStats'.cachedFallbackPRs = 0)
       /\ pc # "idle" =>
            /\ errorStats'.skippedPRs
                    = errorStats.skippedPRs + (IF UnitSkipped(last') THEN 1 ELSE 0)
            /\ errorStats'.cachedFallbackPRs
                    = errorStats.cachedFallbackPRs + (IF last'.how = "fallback" THEN 1 ELSE 0)]_vars

\* C27: a review unit whose requests failed up to the retry ceiling is answered
\* from the cache, and counted as recovered, whenever the store holds an
\* unexpired entry under its key, and is marked skipped only when it holds none.
C27_FallbackWhenStored ==
    (last.kind = "reviews" /\ last.net /\ last.cause = "upstream")
        => /\ last.hadEntry => (last.how = "fallback" /\ last.result # <<>>)
           /\ ~last.hadEntry => last.how = "failed"

-----------------------------------------------------------------------------
(* Claims about retryWithBackoff (checked under SpecRetry) *)

\* the failures the retry is promised for: HTTP 403, 429, 502, 503, 504,
\* connection reset, premature close, timeout
PromisedRetry(error) ==
    \/ error.status \in {403, 429, 502, 503, 504}
    \/ error.code \in {"ECONNRESET", "ERR_STREAM_PREMATURE_CLOSE", "ETIMEDOUT"}

\* C28: retryWithBackoff calls the operation at most maxRetries times, waits
\* baseDelay * 2^(i-1) after the i-th failed call that is followed by another,
\* and gives up before the ceiling only on a failure that is none of HTTP 403,
\* 429, 502, 503, 504, connection reset, premature close or timeout.
C28_BackoffRetry ==
    ret.op = "retryWithBackoff" =>
        LET outcomes == ret.args[1]
            maxRetries == ret.args[2]
            baseDelay == ret.args[3]
            out == ret.out
        IN /\ out.attempts <= maxRetries
           /\ Len(out.delays) = out.attempts - 1
           /\ \A i \in DOMAIN out.delays : out.delays[i] = baseDelay * 2 ^ (i - 1)
           /\ (~out.ok /\ out.attempts < maxRetries)
                => ~PromisedRetry(outcomes[out.attempts])

\* the first call of operation() in the script that succeeds (0: none)
FirstSuccess(outcomes) ==
    IF \E i \in DOMAIN outcomes : outcomes[i].ok
        THEN CHOOSE i \in DOMAIN outcomes :
                outcomes[i].ok /\ \A j \in 1..(i - 1) : ~outcomes[j].ok
        ELSE 0

\* C39: retryWithBackoff calls the operation once and rejects with that very
\* error when the first failure is not retryable; when the operation succeeds
\* at call k it was called exactly k times and the promise resolves to what
\* that call returned; the number of waits is one less than the number of
\* calls, so no wait follows the last call.
C39_RetryExits ==
    ret.op = "retryWithBackoff" =>
        LET outcomes == ret.args[1]
            out == ret.out
        IN /\ (~outcomes[1].ok /\ ~IsRetryableError(outcomes[1]))
                => (~out.ok /\ out.attempts = 1 /\ out.settled = outcomes[1])
           /\ out.ok => /\ out.attempts = FirstSuccess(outcomes)
                        /\ out.settled = outcomes[out.attempts]
           /\ out.attempts \in 1..ret.args[2]
           /\ out.settled = outcomes[out.attempts]
           /\ Len(out.delays) = out.attempts - 1

\* C39 witness: a call that failed twice with retryable errors, waited twice
\* and succeeded at the third call
C39_Witness ==
    /\ ret.op = "retryWithBackoff"
    /\ ret.out.ok
    /\ ret.out.attempts = 3
    /\ Len(ret.out.delays) = 2

-----------------------------------------------------------------------------
(* Claims about aggregateMetricsByDateRange (checked under SpecAggregate) *)

\* the CHANGES_REQUESTED reviews among pullRequests written by a reviewer whose
\* lowercase login is `key`
RejectionsBy(pullRequests, key) ==
    {<<i, j>> \in (1..MaxPRs) \X (1..MaxReviews) :
        /\ i <= Len(pullRequests)
        /\ j <= Len(pullRequests[i].reviews)
        /\ pullRequests[i].reviews[j].state = "CHANGES_REQUESTED"
        /\ ToLowerCase(LoginOrUnknown(pullRequests[i].reviews[j].author)) = key}

\* C31: in the merged metrics the rejections of a user are the
\* CHANGES_REQUESTED reviews that user wrote (not those written on the user's
\* pull requests), every key is lowercase, and no key is a blacklisted or an
\* excluded name.
C31_RejectionsToReviewer ==
    ret.op = "aggregateMetricsByDateRange" =>
        \A key \in DOMAIN ret.out :
            /\ ret.out[key].rejections = Cardinality(RejectionsBy(ret.args, key))
            /\ ~key.upper
            /\ key.name \notin BLACKLISTED_CODE_USERS
            /\ key.name \notin EXCLUDED_FROM_RANKINGS

-----------------------------------------------------------------------------
(* Claims about the cache keys (checked under SpecKeys) *)

\* C37: for one owner, two different fetch units whose entries live in the
\* same table never get the same key text.
C37_KeysInjective ==
    (ret.table = cur.table /\ ret.unit # cur.unit) => ret.key # cur.key

\* C37 witness: the keys of PR 2 of "web1" and of PR 12 of "web" were built
\* one after the other, both for prs_review_cache
C37_Witness ==
    /\ cur.unit = FetchUnit("reviews", <<119, 101, 98, 49>>, 2, NoInterval)
    /\ ret.unit = FetchUnit("reviews", <<119, 101, 98>>, 12, NoInterval)
    /\ ret.table = "prs_review_cache" /\ cur.table = "prs_review_cache"

-----------------------------------------------------------------------------
(* Claims about repeated requests for one interval (checked under SpecAgain) *)

\* C34: a request for an interval that was fetched successfully before, made
\* before the time to live of that fetch is over, goes to no network call,
\* however many records the fetch returned.
C34_FetchedOnceNoNetwork == last.covered => ~last.net

-----------------------------------------------------------------------------
(* Claims about the runs of one server process (checked under SpecServe) *)

\* C35: no step of any run issues a get, set, preload or cleanup on a table
\* whose handle closeAllCaches has closed.
C35_NoUseAfterClose == last.onClosed = {}

\* C36: while a run is in progress, a step of another run changes neither the
\* skipped and fallback counters nor the open handles, and the counters a run
\* reads for its summary are the counts of its own units.
C36_RunsIsolated ==
    [][\A r \in ServedRuns :
          /\ (InProgress(pc[r]) /\ pc'[r] = pc[r])
                => (errorStats' = errorStats /\ closed' = closed)
          /\ (pc[r] = "summary" /\ pc'[r] = "finally")
                => /\ cur'[r].reported.skippedPRs = cur[r].skipped
                   /\ cur'[r].reported.cachedFallbackPRs = cur[r].fallback]_vars

-----------------------------------------------------------------------------
(* Claims about the fetch units of a run (checked under Spec) *)

\* the unit that ran last is one of the cached fetch units
UnitRan == last.kind \in UnitKinds
IntervalKinds == {"prs", "issues", "closed-issues"}

\* the records generateReport holds for a kind of interval
WorkOf(kind) ==
    CASE kind = "prs" -> work.prs
      [] kind = "issues" -> work.issues
      [] kind = "closed-issues" -> work.closedIssues

\* the value the durable store yields now for the key of the last unit
StoredNow == SQLiteGet(db[TableOf(last.kind)], last.key, now, FALSE).val

\* C2: with force-refresh off, a fetch unit whose key has an unexpired entry in
\* the durable store (here: one an earlier process wrote five minutes ago, or
\* an earlier unit of this run) and whose storage read did not fail is resolved
\* from the cache, and no network call is made for it.
C2_CachedUnitNoNetwork ==
    (~flags.force /\ UnitRan /\ last.hadEntry /\ last.cause # "cache-read")
        => (last.how = "cache" /\ ~last.net)

\* C3: with offline mode on and nothing in the cache when the process starts,
\* no step of the run (repository listing, quota check and comments included)
\* makes a network call, and every step contributes zero records.
C3_OfflineEmptyNoNetwork ==
    (flags.offline /\ prior = "none") => (~last.net /\ last.result = <<>>)

\* C4: an upstream failure inside one fetch unit never leaves the unit as a
\* thrown error; the batch goes on to the remaining units.
C4_UnitErrorContained ==
    ~(UnitRan /\ last.cause = "upstream" /\ last.how = "threw")

\* C5: when the fetch of one interval ends in a non-retryable failure and its
\* key has no cached value, the interval contributes zero records, the skipped
\* counter of the run grows by exactly one, and what the other intervals
\* contributed is still there.
C5_FailedIntervalSkipped ==
    (last.kind \in IntervalKinds /\ last.how = "failed" /\ last.cause = "upstream"
        /\ ~last.hadEntry)
        => /\ last.result = <<>>
           /\ errorStats.skippedPRs = last.skippedBefore + 1
           /\ SubSeq(WorkOf(last.kind), 1, Len(last.before)) = last.before

\* C6: a storage error on the read of a fetch unit acts as a miss: the unit
\* goes on along its miss path and the error is not propagated.
C6_ReadErrorIsMiss ==
    (UnitRan /\ last.cause = "cache-read") => last.how # "threw"

\* C7: a storage error on the write of a fetch unit aborts neither the unit nor
\* the batch, and the unit still returns the records it had just fetched.
C7_WriteErrorKeepsFresh ==
    (UnitRan /\ last.cause = "cache-write")
        => (last.how # "threw" /\ last.result = last.fresh)

\* C8: with force-refresh on and offline mode off, no fetch unit is resolved
\* from a cache read, every unit goes to the network, and after a fetch that
\* succeeded (and whose write did not fail) the entry under the key of the unit
\* holds exactly what was fetched, an empty result included.
C8_ForceRefreshOverwrites ==
    (flags.force /\ ~flags.offline /\ UnitRan)
        => /\ last.how # "cache"
           /\ last.net
           /\ (last.how = "network" /\ last.cause = "none")
                => StoredNow = IF last.kind = "reviews" THEN JObj(last.fresh)
                               ELSE JArr(last.fresh)


\* C32: a turn of an interval loop whose pagination ended on a failed page
\* request writes nothing to the durable store.
C32_NoPartialEntry ==
    [][(last'.kind \in IntervalKinds /\ last'.how = "failed" /\ last'.cause = "upstream")
            => db' = db]_vars

\* what a cache of the kind of the last unit holds for the records xs
Stored(xs) == IF last.kind = "reviews" THEN JObj(xs) ELSE JArr(xs)

\* C33: after a fetch unit that went to the network, succeeded and wrote its
\* entry, both the durable store and the memory mirror hold under the key of
\* the unit exactly the records the unit returned to its caller (an interval
\* that fetched no record writes no entry and is left out).
C33_CacheTransparent ==
    (UnitRan /\ last.how = "network" /\ last.cause = "none"
        /\ (last.kind \in IntervalKinds => last.fresh # <<>>))
        => /\ StoredNow = Stored(last.result)
           /\ CompatGet(mem[TableOf(last.kind)], last.key) = Stored(last.result)


\* C14: once the process has preloaded its caches and no durable write is
\* under way or has failed, the synchronous get (the memory mirror) and the
\* durable getAsync yield the same for every key of every cache.
C14_MirrorAgrees ==
    ((\E i \in 1..Len(Phases) : pc = Phases[i]) /\ last.cause # "cache-write")
        => \A t \in Tables :
              \A k \in DOMAIN db[t] \cup DOMAIN mem[t] :
                  CompatGet(mem[t], k) = SQLiteGet(db[t], k, now, FALSE).val


=============================================================================
